---------------------------- MODULE Spec2Model ----------------------------
(***************************************************************************)
(* State-machine model of the multi-queue VirtIO NIC driver:               *)
(*   kernel/virtio_nic.c          transmit entry point, poll, remove       *)
(*   kernel/virtio_nic_queue.c    ring enqueue/dequeue, per-queue flows    *)
(*   kernel/virtio_nic_failover.c health check, failover, flow migration   *)
(*   kernel/virtio_nic_dma.c      per-node DMA buffer pool                 *)
(*   kernel/virtio_nic_irq.c      interrupt coalescing                     *)
(*                                                                         *)
(* Spec      traffic, device errors and the health check, one handler at   *)
(*           a time.                                                       *)
(* SpecApi   traffic and the exported migration calls, one at a time.      *)
(* SpecRing  transmits, device completions and dequeues on the rings.      *)
(* SpecMig   the flow-migration code step by step, lock by lock, with      *)
(*           several CPUs interleaving.                                    *)
(* SpecPool  the DMA buffer pool of one NUMA node.                         *)
(* SpecCoal  the coalescing interval.                                      *)
(* SpecRec   device errors, the health check, the clock and the recovery   *)
(*           sweep.                                                        *)
(* SpecSched traffic, load and the scheduler's rebalance of queue CPUs.    *)
(* SpecStep  the transmit path one critical section at a time.             *)
(* SpecRedirect  as Spec, with traffic going on after a failover.          *)
(* SpecDown  the timers and virtio_nic_remove, one teardown call at a      *)
(*           time.                                                         *)
(* SpecSetup virtio_nic_setup_queues over queue and NUMA node counts.      *)
(* SpecPoll  transmits, completions, the interrupt and the NAPI poll.      *)
(* SpecBuf   virtio_nic_dma_alloc_buffer over request sizes.               *)
(* SpecCap   receive errors and health checks up to the failover cap.      *)
(* SpecSel   error counters at several levels and failover remaps.         *)
(* SpecLive  the health-check timer from probe to removal, with fairness.  *)
(* SpecUsed  pool acquires, and releases of any slot.                      *)
(*                                                                         *)
(* The kernel is an SMP build: a spinlock taken twice by one CPU, or by    *)
(* two CPUs in opposite orders, spins for ever.                            *)
(***************************************************************************)
EXTENDS Integers, Sequences, FiniteSets, TLC

(***************************************************************************)
(* Bounds of the model.                                                    *)
(***************************************************************************)
NumQueues == 2          \* priv->num_queues (module parameter num_queues)
MaxXmit == 1            \* packets accepted in one behaviour of Spec
MaxXmitApi == 2         \* packets accepted in one behaviour of SpecApi
MaxXmitMig == 2         \* packets accepted in one behaviour of SpecMig
MaxFailures == 2        \* largest failure_count a failover record reaches
RingSize == 2           \* descriptors of one virtqueue
MaxElapse == 1          \* times the clock is advanced in one behaviour
MaxXmitRing == 3        \* packets accepted in one behaviour of SpecRing
PoolSlots == 2          \* pool->size, the slots of one pool (64 in the driver)
NodePages == 3          \* pages the NUMA node can supply
MaxAcquires == 3        \* buffers handed out in one behaviour of SpecPool
MaxRequestUsecs == 130  \* largest interval asked of virtio_nic_update_coalesce
NumNodes == 2           \* num_possible_nodes()
CpusPerNode == 1        \* CPUs of one NUMA node
MaxSetupQueues == 12    \* largest num_queues a probe is tried with
MaxSetupNodes == 4      \* most NUMA nodes a probe is tried on
MaxMapped == 4          \* scatterlists mapped in one behaviour
MaxBudget == 2          \* largest budget virtio_nic_poll is called with
MaxBufPages == 8        \* whole pages in the largest size a buffer is asked for
MaxBufWraps == 1        \* multiples of 2^32 pages in the largest such size

(***************************************************************************)
(* Program constants.                                                      *)
(***************************************************************************)
FlowKeyModulus == 65535          \* 0xFFFF in virtio_nic_enqueue
queue_failure_threshold == 1000
max_failover_count == 3
RECOVERY_WINDOW_MS == 5000
PAGE_SIZE == 4096
VIRTIO_NIC_COALESCE_USECS == 64
max_coalesce_usecs == 128
min_coalesce_usecs == 8
HighLoad == 1000                 \* total_load > 1000 in virtio_nic_adaptive_coalescing
LowLoad == 100                   \* total_load < 100
adaptive_threshold == 1000

Queues == 0 .. (NumQueues - 1)
\* skb->hash: one hash per queue, and FlowKeyModulus + 1, which has the flow
\* key of hash 1
Hashes == (0 .. (NumQueues - 1)) \cup {FlowKeyModulus + 1}
\* skb->len; Spec sends packets of one length
Lens == {1, 2}
FailoverLens == {2}
Threads == {"timer", "m1", "m2", "r", "tx"}
NoQueue == -1

VARIABLES
    \* struct virtio_nic_queue / struct virtio_nic_priv
    flow_list,          \* [Queues -> Seq(flow)]  q->flow_list in list order
    flow_lock,          \* [Queues -> "free" or the thread holding q->flow_lock]
    q_lock,             \* [Queues -> "free" | "hung"]  q->lock
    pending_packets,    \* [Queues -> Int]  atomic_t q->pending_packets
    vq_avail,           \* [Queues -> Nat]  buffers added, not yet used by the device
    vq_used,            \* [Queues -> Nat]  buffers used by the device, not yet collected
    tx_packets,         \* [Queues -> Nat]
    tx_bytes,           \* [Queues -> Nat]
    total_tx_packets,   \* priv->total_tx_packets
    total_tx_bytes,     \* priv->total_tx_bytes
    rx_errors,          \* [Queues -> Nat]
    tx_errors,          \* [Queues -> Nat]
    \* struct virtio_nic_failover_state
    failed_queue_list,  \* Seq([queue_id, failure_count, last_failure])
    failover_count,
    fo_active_queues,   \* failover->active_queues
    fo_failed_queues,   \* failover->failed_queues
    now,                \* ktime_get() in ms
    \* execution contexts
    pc,                 \* [Threads -> label]
    hand,               \* [Threads -> Seq(flow)]  entry unlinked and not yet relinked
    arg_old,            \* [Threads -> queue]  old_queue / queue being scanned
    arg_new,            \* [Threads -> queue]  new_queue
    arg_flow,           \* [Threads -> flow key looked up]
    found,              \* [Threads -> BOOLEAN] the lookup met its flow
    \* history
    quiet,              \* health checks run since the last error report, up to 2
    elapses,            \* times the clock was advanced
    recovered,          \* the queues the last recovery sweep returned to service
    ring_busy,          \* a transmit found its ring full and returned NETDEV_TX_BUSY
    xmit_ok,            \* transmits that returned NETDEV_TX_OK
    sent_hashes,        \* skb->hash of the packets whose transmit returned NETDEV_TX_OK
    dma_mapped,         \* scatterlists mapped by virtio_nic_dma_map_skb and not unmapped
    \* struct dma_buffer_pool of one NUMA node
    buffers,            \* [Slots -> struct virtio_nic_dma_buf]  pool->buffers
    used,               \* pool->used
    pool_state,         \* "ready" | "freed" (dma_pools[node] = NULL) | "crashed"
    pages_free,         \* pages the node's allocator can still hand out
    ret,                \* what the last get_buffer returned: << >> (NULL) or <<slot>>
    held,               \* [Slots -> Nat] hand-outs of the slot not yet released
    acquired,           \* get_buffer calls that returned a buffer
    released,           \* put_buffer calls
    \* interrupt coalescing
    coalesce_usecs,     \* the module's coalesce_usecs
    clamped,            \* how the last applied request was clamped: "no" | "low" | "high"
    coalesce_timer,     \* [Queues -> usecs q->coalesce_timer is armed for, 0 when idle]
    new_coalesce,       \* new_coalesce of the last virtio_nic_adaptive_coalescing run
                        \* if no direct request came after it, else 0
    \* queue placement
    cpu_id,             \* [Queues -> CPU]  q->cpu_id
    stayed,             \* the overloaded queues the last rebalance left on their CPU
    \* device lifetime (virtio_nic_remove)
    health_check_timer, \* failover->health_check_timer is pending or running
    failover_state,     \* priv->failover_state: "live" | "NULL" (freed)
    priv_queues,        \* priv->queues: "live" | "NULL" (freed)
    remove_pc,          \* the statement virtio_nic_remove is at; "bound" before it
    torn,               \* queues the loop of virtio_nic_teardown_queues has done
    \* queue setup (virtio_nic_setup_queues) of a probe
    setup_queues,       \* priv->num_queues of the probe, 0 before any
    setup_nodes,        \* num_possible_nodes() of the machine probed on
    setup_err,          \* "none" | "ok" (0) | "ENOMEM" | "EIO" | "oops" (divide error)
    setup_numa_node,    \* Seq of q->numa_node, in queue order, as far as written
    setup_active,       \* priv->active_queues of the probe
    \* receive side (virtio_nic_interrupt, virtio_nic_poll)
    cb_enabled,         \* [Queues -> BOOLEAN] the virtqueue's callbacks are enabled
    rx_packets,         \* [Queues -> Nat]
    rx_bytes,           \* [Queues -> Nat]
    total_rx_packets,   \* priv->total_rx_packets
    total_rx_bytes,     \* priv->total_rx_bytes
    poll_ret,           \* what the last virtio_nic_poll returned
    \* one call of virtio_nic_dma_alloc_buffer
    built               \* [size, ret, sgl]: the size asked for, the return value
                        \* ("none" | "ok" | "ENOMEM" | "oops") and the scatterlist

queueVars == <<flow_list, flow_lock, q_lock, pending_packets, vq_avail, vq_used,
               tx_packets, tx_bytes, total_tx_packets, total_tx_bytes>>
failVars == <<rx_errors, tx_errors, failed_queue_list, failover_count,
              fo_active_queues, fo_failed_queues>>
timeVars == <<now, elapses>>
poolVars == <<buffers, used, pool_state, pages_free, ret, held, acquired, released>>
coalVars == <<coalesce_usecs, clamped, coalesce_timer, new_coalesce>>
schedVars == <<cpu_id, stayed>>
lifeVars == <<health_check_timer, failover_state, priv_queues, remove_pc, torn>>
setupVars == <<setup_queues, setup_nodes, setup_err, setup_numa_node, setup_active>>
pollVars == <<cb_enabled, rx_packets, rx_bytes, total_rx_packets, total_rx_bytes, poll_ret>>
bufVars == <<built>>
threadVars == <<pc, hand, arg_old, arg_new, arg_flow, found>>
failHist == <<quiet, recovered>>
xmitHist == <<ring_busy, xmit_ok, sent_hashes, dma_mapped>>
histVars == <<failHist, xmitHist>>
vars == <<queueVars, failVars, timeVars, poolVars, coalVars, schedVars, lifeVars, setupVars, pollVars,
          bufVars, threadVars,
          histVars>>

(***************************************************************************)
(* Sequence helpers.                                                       *)
(***************************************************************************)
RECURSIVE FirstIndex(_, _, _)
\* index of the first entry of list whose flow_id is id, 0 when there is none
\* (list_for_each_entry with the test flow->flow_id == flow_id)
FirstIndex(list, id, i) ==
    IF i > Len(list) THEN 0
    ELSE IF list[i].flow_id = id THEN i
    ELSE FirstIndex(list, id, i + 1)

\* list_del(&entry->list) of the entry at index i
ListDel(list, i) ==
    SubSeq(list, 1, i - 1) \o SubSeq(list, i + 1, Len(list))

RECURSIVE SumOver(_, _)
SumOver(f, S) ==
    IF S = {} THEN 0
    ELSE LET x == CHOOSE y \in S : TRUE IN f[x] + SumOver(f, S \ {x})

(***************************************************************************)
(* virtio_nic_update_flow_stats: find or create the entry of flow_id in    *)
(* q's list.  alloc_ok is the outcome of kzalloc(GFP_ATOMIC).  A new entry *)
(* gets queue_id = q->flow_tag, which virtio_nic_setup_queues sets to the  *)
(* queue's index.  last_seen is not modelled.                              *)
(***************************************************************************)
UpdateFlowList(list, q, flow_id, bytes, alloc_ok) ==
    LET i == FirstIndex(list, flow_id, 1) IN
    IF i > 0
    THEN [list EXCEPT ![i].bytes = @ + bytes, ![i].packets = @ + 1]
    ELSE IF alloc_ok
         THEN Append(list, [flow_id |-> flow_id, queue_id |-> q,
                            bytes |-> bytes, packets |-> 1])
         ELSE list


(***************************************************************************)
(* Initial state: after virtio_nic_setup_queues and                        *)
(* virtio_nic_init_failover, pools and timers set up, no traffic yet.      *)
(***************************************************************************)
InitQueues ==
    /\ flow_list = [q \in Queues |-> << >>]
    /\ flow_lock = [q \in Queues |-> "free"]
    /\ q_lock = [q \in Queues |-> "free"]
    /\ pending_packets = [q \in Queues |-> 0]
    /\ vq_avail = [q \in Queues |-> 0]
    /\ vq_used = [q \in Queues |-> 0]
    /\ tx_packets = [q \in Queues |-> 0]
    /\ tx_bytes = [q \in Queues |-> 0]
    /\ total_tx_packets = 0
    /\ total_tx_bytes = 0

InitFailover ==
    /\ rx_errors = [q \in Queues |-> 0]
    /\ tx_errors = [q \in Queues |-> 0]
    /\ failed_queue_list = << >>
    /\ failover_count = 0
    /\ fo_active_queues = NumQueues
    /\ fo_failed_queues = 0

InitTime ==
    /\ now = 0
    /\ elapses = 0

InitThreads ==
    /\ pc = [t \in Threads |-> "idle"]
    /\ hand = [t \in Threads |-> << >>]
    /\ arg_old = [t \in Threads |-> 0]
    /\ arg_new = [t \in Threads |-> 0]
    /\ arg_flow = [t \in Threads |-> 0]
    /\ found = [t \in Threads |-> FALSE]

(***************************************************************************)
(* Transmit path.                                                          *)
(***************************************************************************)
\* priv->active_queues as virtio_nic_setup_queues leaves it
active_queues == NumQueues

\* virtio_nic_start_xmit: the queue a packet with this hash is sent on
XmitQueue(hash) ==
    (IF hash # 0 THEN hash % NumQueues ELSE 0) % active_queues

\* virtio_nic_enqueue: the flow key of a packet with this hash
FlowKey(hash) == hash % FlowKeyModulus

FlowKeys == {FlowKey(h) : h \in Hashes}

\* a ring that takes a buffer however many it holds
RingNeverFull(q) == TRUE

\* virtqueue_add_sgs succeeds while a descriptor is free
RingHasRoom(q) == vq_avail[q] + vq_used[q] < RingSize

\* virtio_nic_enqueue with the ring not full, under q->lock
EnqueueOk(q, key, len, alloc_ok) ==
    /\ vq_avail' = [vq_avail EXCEPT ![q] = @ + 1]
    /\ pending_packets' = [pending_packets EXCEPT ![q] = @ + 1]
    /\ IF flow_lock[q] = "free"
       THEN /\ flow_list' = [flow_list EXCEPT
                                ![q] = UpdateFlowList(@, q, key, len, alloc_ok)]
            /\ q_lock' = q_lock
       ELSE \* virtio_nic_update_flow_stats spins on q->flow_lock, which a
            \* hung CPU holds: the caller never returns and keeps q->lock
            /\ flow_list' = flow_list
            /\ q_lock' = [q_lock EXCEPT ![q] = "hung"]

\* a statistics update that counts the packet in the aggregate only
TxStatsAggregateOnly(q, len) ==
    /\ total_tx_packets' = total_tx_packets + 1
    /\ total_tx_bytes' = total_tx_bytes + len
    /\ UNCHANGED <<tx_packets, tx_bytes>>

\* the statistics update of virtio_nic_start_xmit under priv->stats_lock
TxStatsUpdate(q, len) ==
    /\ total_tx_packets' = total_tx_packets + 1
    /\ total_tx_bytes' = total_tx_bytes + len
    /\ tx_packets' = [tx_packets EXCEPT ![q] = @ + 1]
    /\ tx_bytes' = [tx_bytes EXCEPT ![q] = @ + len]

\* what virtio_nic_start_xmit returns for a packet with this hash: "BUSY"
\* when the mapping or the enqueue fails, "OK" after the statistics, "never"
\* when the flow update spins on a flow_lock that is never released
\* virtio_nic_dma_map_skb on the count of mapped scatterlists (enable_zero_copy
\* being set): dma_map_sg maps the skb's scatterlist unless it fails
DmaMapSkb(mapped, map_ok) == IF map_ok THEN mapped + 1 ELSE mapped

XmitReturn(hash, map_ok) ==
    LET q == XmitQueue(hash) IN
    IF ~map_ok \/ ~RingHasRoom(q) THEN "BUSY"
    ELSE IF flow_lock[q] = "free" THEN "OK"
    ELSE "never"

\* virtio_nic_start_xmit(skb, ndev): map_ok is the outcome of
\* virtio_nic_dma_map_skb, alloc_ok that of kzalloc in the flow update
virtio_nic_start_xmit(hash, len, map_ok, alloc_ok) ==
    LET q == XmitQueue(hash) IN
    /\ q_lock[q] = "free"
    /\ map_ok => dma_mapped < MaxMapped
    /\ IF map_ok /\ RingHasRoom(q)
       THEN /\ EnqueueOk(q, FlowKey(hash), len, alloc_ok)
            /\ IF flow_lock[q] = "free"
               THEN TxStatsUpdate(q, len)
               ELSE UNCHANGED <<total_tx_packets, total_tx_bytes, tx_packets, tx_bytes>>
            /\ UNCHANGED <<flow_lock, vq_used>>
       ELSE \* NETDEV_TX_BUSY: the skb is freed, nothing is recorded
            UNCHANGED queueVars
    /\ ring_busy' = (ring_busy \/ (map_ok /\ ~RingHasRoom(q)))
    /\ dma_mapped' = DmaMapSkb(dma_mapped, map_ok)
    /\ xmit_ok' = IF XmitReturn(hash, map_ok) = "OK" THEN xmit_ok + 1 ELSE xmit_ok
    /\ sent_hashes' = IF XmitReturn(hash, map_ok) = "OK"
                      THEN sent_hashes \cup {hash} ELSE sent_hashes
    /\ UNCHANGED <<failVars, timeVars, poolVars, coalVars, schedVars, lifeVars, setupVars, pollVars, bufVars, threadVars, failHist>>

\* the device takes one submitted buffer and marks it used
DeviceUse(q) ==
    /\ vq_avail[q] > 0
    /\ vq_avail' = [vq_avail EXCEPT ![q] = @ - 1]
    /\ vq_used' = [vq_used EXCEPT ![q] = @ + 1]
    /\ UNCHANGED <<flow_list, flow_lock, q_lock, pending_packets, tx_packets,
                   tx_bytes, total_tx_packets, total_tx_bytes>>
    /\ UNCHANGED <<failVars, timeVars, poolVars, coalVars, schedVars, lifeVars, setupVars, pollVars, bufVars, threadVars, histVars>>

\* a virtqueue_get_buf that returns a buffer whether or not one was used
GetBufAlways(q) == TRUE

\* virtqueue_get_buf returns a buffer when the device has used one
GetBufReturns(q) == vq_used[q] > 0

\* virtio_nic_dequeue(q, &len)
virtio_nic_dequeue(q) ==
    /\ q_lock[q] = "free"
    /\ IF GetBufReturns(q)
       THEN /\ vq_used' = [vq_used EXCEPT ![q] = @ - 1]
            /\ pending_packets' = [pending_packets EXCEPT ![q] = @ - 1]
       ELSE UNCHANGED <<vq_used, pending_packets>>
    /\ UNCHANGED <<flow_list, flow_lock, q_lock, vq_avail, tx_packets,
                   tx_bytes, total_tx_packets, total_tx_bytes>>
    /\ UNCHANGED <<failVars, timeVars, poolVars, coalVars, schedVars, lifeVars, setupVars, pollVars, bufVars, threadVars, histVars>>

(***************************************************************************)
(* Failover.  A handler that walks several queues is computed on a record  *)
(* of the fields it touches:                                               *)
(*   fl flow_list, lk flow_lock, rx rx_errors, tx tx_errors,               *)
(*   fql failed_queue_list, fc failover_count, act/fld the failover        *)
(*   state's active_queues/failed_queues, hd the entry the running thread  *)
(*   has unlinked, hung whether the thread spins for ever on a spinlock.   *)
(***************************************************************************)
Snapshot(me) ==
    [fl |-> flow_list, lk |-> flow_lock, rx |-> rx_errors, tx |-> tx_errors,
     fql |-> failed_queue_list, fc |-> failover_count,
     act |-> fo_active_queues, fld |-> fo_failed_queues,
     hd |-> hand[me], hung |-> FALSE]

\* the fields of the record written back, and the thread's fate
Commit(s, me) ==
    /\ flow_list' = s.fl
    /\ flow_lock' = s.lk
    /\ rx_errors' = s.rx
    /\ tx_errors' = s.tx
    /\ failed_queue_list' = s.fql
    /\ failover_count' = s.fc
    /\ fo_active_queues' = s.act
    /\ fo_failed_queues' = s.fld
    /\ hand' = [hand EXCEPT ![me] = s.hd]
    /\ pc' = [pc EXCEPT ![me] = IF s.hung THEN "hung" ELSE @]

RECURSIVE BestQueueFrom(_, _, _, _, _)
\* the loop of virtio_nic_find_available_queue from index i on
BestQueueFrom(rx, tx, i, best_queue, min_errors) ==
    IF i >= NumQueues THEN best_queue
    ELSE LET total_errors == rx[i] + tx[i] IN
         IF min_errors = NoQueue \/ total_errors < min_errors
         THEN BestQueueFrom(rx, tx, i + 1, i, total_errors)
         ELSE BestQueueFrom(rx, tx, i + 1, best_queue, min_errors)

\* a selection that takes, among the queues with the fewest errors, the last
LastOfLeast(rx, tx) ==
    CHOOSE t \in Queues :
        \A q \in Queues : \/ rx[t] + tx[t] < rx[q] + tx[q]
                          \/ (rx[t] + tx[t] = rx[q] + tx[q] /\ q <= t)

\* virtio_nic_find_available_queue: min_errors starts at U64_MAX, written
\* NoQueue here (no counter of the model reaches U64_MAX)
virtio_nic_find_available_queue(rx, tx) ==
    BestQueueFrom(rx, tx, 0, NoQueue, NoQueue)

\* a move that leaves the entries' queue_id as it was
Untagged(list, new_queue) == list

\* the entries of list with queue_id set to new_queue, in list order
Retagged(list, new_queue) ==
    [i \in 1 .. Len(list) |-> [list[i] EXCEPT !.queue_id = new_queue]]

\* virtio_nic_reassign_queue_flows(priv, old_queue, new_queue) run by me
\* with no other thread inside the flow tables
virtio_nic_reassign_queue_flows(s, old_queue, new_queue, me) ==
    IF s.lk[old_queue] # "free"
    THEN \* spin_lock_irqsave(&old_q->flow_lock) never returns
         [s EXCEPT !.hung = TRUE]
    ELSE IF s.fl[old_queue] = << >>
    THEN s
    ELSE IF new_queue = old_queue \/ s.lk[new_queue] # "free"
    THEN \* the first entry is unlinked, then spin_lock(&new_q->flow_lock)
         \* never returns; old_q->flow_lock stays held
         [s EXCEPT !.fl[old_queue] = Tail(@),
                   !.hd = <<[Head(s.fl[old_queue]) EXCEPT !.queue_id = new_queue]>>,
                   !.lk[old_queue] = me,
                   !.hung = TRUE]
    ELSE [s EXCEPT !.fl[new_queue] = @ \o Retagged(s.fl[old_queue], new_queue),
                   !.fl[old_queue] = << >>]

\* a remap that leaves the error counters of the old queue as they are
KeepErrors(s, old_queue) == s

\* the statistics update of virtio_nic_remap_queue after the flows moved
ResetErrors(s, old_queue) ==
    [s EXCEPT !.rx[old_queue] = 0, !.tx[old_queue] = 0]

\* virtio_nic_remap_queue(priv, old_queue, new_queue)
RemapQueue(s, old_queue, new_queue, me) ==
    LET target_queue == IF new_queue = NoQueue
                        THEN virtio_nic_find_available_queue(s.rx, s.tx)
                        ELSE new_queue
        moved == virtio_nic_reassign_queue_flows(s, old_queue, target_queue, me)
    IN IF target_queue < 0 THEN s
       ELSE IF moved.hung THEN moved
       ELSE ResetErrors(moved, old_queue)

\* a search of the failed-queue list that never meets a record
RecordNotFound(fql, queue_id, i) == 0

RECURSIVE RecordIndex(_, _, _)
\* index of the failover record of queue_id in the failed-queue list, 0 if none
RecordIndex(fql, queue_id, i) ==
    IF i > Len(fql) THEN 0
    ELSE IF fql[i].queue_id = queue_id THEN i
    ELSE RecordIndex(fql, queue_id, i + 1)

\* virtio_nic_queue_failed up to the unlock of failed_queue_lock
MarkFailed(s, queue_id, alloc_ok, t) ==
    LET i == RecordIndex(s.fql, queue_id, 1) IN
    IF i > 0
    THEN [s EXCEPT !.fql[i].failure_count = @ + 1, !.fql[i].last_failure = t]
    ELSE IF alloc_ok
         THEN [s EXCEPT !.fql = Append(@, [queue_id |-> queue_id,
                                           failure_count |-> 1,
                                           last_failure |-> t]),
                        !.fld = @ + 1,
                        !.act = @ - 1]
         ELSE s

\* a gate that lets every failover through
FailoverUncapped(fc) == TRUE

\* whether virtio_nic_queue_failed goes on to remap the queue
MayFailover(fc) == fc < max_failover_count

\* virtio_nic_queue_failed(priv, queue_id)
virtio_nic_queue_failed(s, queue_id, alloc_ok, t, me) ==
    LET marked == MarkFailed(s, queue_id, alloc_ok, t) IN
    IF MayFailover(marked.fc)
    THEN RemapQueue([marked EXCEPT !.fc = @ + 1], queue_id, NoQueue, me)
    ELSE marked

\* the test of virtio_nic_health_check_timer on one queue
ExceedsThreshold(rx, tx, i) ==
    rx[i] > queue_failure_threshold \/ tx[i] > queue_failure_threshold

RECURSIVE HealthCheckFrom(_, _, _, _, _)
\* the loop of virtio_nic_health_check_timer from queue i on; the record of
\* queue i can be allocated iff i \in ok_set
HealthCheckFrom(s, i, ok_set, t, me) ==
    IF i >= NumQueues \/ s.hung THEN s
    ELSE IF ExceedsThreshold(s.rx, s.tx, i)
    THEN HealthCheckFrom(virtio_nic_queue_failed(s, i, i \in ok_set, t, me),
                         i + 1, ok_set, t, me)
    ELSE HealthCheckFrom(s, i + 1, ok_set, t, me)

\* virtio_nic_health_check_timer: one expiry of the health-check timer.  A
\* tick that hangs never re-arms the timer.
virtio_nic_health_check_timer(ok_set) ==
    /\ pc["timer"] = "idle"
    /\ Commit(HealthCheckFrom(Snapshot("timer"), 0, ok_set, now, "timer"), "timer")
    /\ quiet' = IF quiet < 2 THEN quiet + 1 ELSE quiet
    /\ UNCHANGED <<recovered, xmitHist>>
    /\ UNCHANGED <<q_lock, pending_packets, vq_avail, vq_used, tx_packets,
                   tx_bytes, total_tx_packets, total_tx_bytes>>
    /\ UNCHANGED <<timeVars, poolVars, coalVars, schedVars, lifeVars, setupVars, pollVars, bufVars, arg_old, arg_new, arg_flow, found>>

\* virtio_nic_remap_queue called through its exported symbol
virtio_nic_remap_queue(old_queue, new_queue) ==
    /\ pc["m1"] = "idle"
    /\ Commit(RemapQueue(Snapshot("m1"), old_queue, new_queue, "m1"), "m1")
    /\ UNCHANGED <<q_lock, pending_packets, vq_avail, vq_used, tx_packets,
                   tx_bytes, total_tx_packets, total_tx_bytes>>
    /\ UNCHANGED <<timeVars, poolVars, coalVars, schedVars, lifeVars, setupVars, pollVars, bufVars, arg_old, arg_new, arg_flow, found, histVars>>

RECURSIVE FlowReassignFrom(_, _, _, _, _)
\* the loop of virtio_nic_flow_reassign from queue i on
FlowReassignFrom(s, i, flow_id, new_queue, me) ==
    IF i >= NumQueues THEN s
    ELSE IF s.lk[i] # "free" THEN [s EXCEPT !.hung = TRUE]
    ELSE LET j == FirstIndex(s.fl[i], flow_id, 1) IN
         IF j = 0 THEN FlowReassignFrom(s, i + 1, flow_id, new_queue, me)
         ELSE IF new_queue = i \/ s.lk[new_queue] # "free"
         THEN [s EXCEPT !.fl[i] = ListDel(@, j),
                        !.hd = <<[s.fl[i][j] EXCEPT !.queue_id = new_queue]>>,
                        !.lk[i] = me,
                        !.hung = TRUE]
         ELSE [s EXCEPT !.fl[i] = ListDel(@, j),
                        !.fl[new_queue] = Append(@, [s.fl[i][j] EXCEPT
                                                        !.queue_id = new_queue])]

\* virtio_nic_flow_reassign(priv, flow_id, new_queue)
virtio_nic_flow_reassign(flow_id, new_queue) ==
    /\ pc["r"] = "idle"
    /\ Commit(FlowReassignFrom(Snapshot("r"), 0, flow_id, new_queue, "r"), "r")
    /\ UNCHANGED <<q_lock, pending_packets, vq_avail, vq_used, tx_packets,
                   tx_bytes, total_tx_packets, total_tx_bytes>>
    /\ UNCHANGED <<timeVars, poolVars, coalVars, schedVars, lifeVars, setupVars, pollVars, bufVars, arg_old, arg_new, arg_flow, found, histVars>>

\* ktime_to_ms(ktime_sub(now, failed_q->last_failure)) > 5000
RecoveryDue(t, last_failure) == t - last_failure > RECOVERY_WINDOW_MS

\* a sweep that frees the record and forgets the queue's error counters
ForgetRecord(s, i) ==
    [s EXCEPT !.fql = ListDel(@, i), !.fld = @ - 1, !.act = @ + 1]

\* a sweep that unlinks the record and leaves the two counts as they are
DropRecord(s, i) ==
    [s EXCEPT !.rx[s.fql[i].queue_id] = 0, !.tx[s.fql[i].queue_id] = 0,
              !.fql = ListDel(@, i)]

\* the body of the sweep for the record at index i: the queue's error
\* counters, list_del and kfree, the failed and active counts
RecoverRecord(s, i) ==
    LET q == s.fql[i].queue_id IN
    [s EXCEPT !.rx[q] = 0, !.tx[q] = 0,
              !.fql = ListDel(@, i),
              !.fld = @ - 1, !.act = @ + 1]

RECURSIVE RecoverFrom(_, _, _)
\* the loop of virtio_nic_queue_recovery_work over the records from index i
RecoverFrom(s, i, t) ==
    IF i > Len(s.fql) THEN s
    ELSE IF RecoveryDue(t, s.fql[i].last_failure)
    THEN RecoverFrom(RecoverRecord(s, i), i, t)
    ELSE RecoverFrom(s, i + 1, t)

\* the queues that have a failover record in the list
RecordedQueues(fql) == {fql[i].queue_id : i \in 1 .. Len(fql)}

\* virtio_nic_queue_recovery_work: one run of the recovery sweep, on the CPU
\* of the workqueue
virtio_nic_queue_recovery_work ==
    LET swept == RecoverFrom(Snapshot("timer"), 1, now) IN
    /\ Commit(swept, "timer")
    /\ recovered' = RecordedQueues(failed_queue_list) \ RecordedQueues(swept.fql)
    /\ UNCHANGED <<q_lock, pending_packets, vq_avail, vq_used, tx_packets,
                   tx_bytes, total_tx_packets, total_tx_bytes>>
    /\ UNCHANGED <<timeVars, poolVars, coalVars, schedVars, lifeVars, setupVars, pollVars, bufVars, arg_old, arg_new, arg_flow, found, quiet, xmitHist>>

(***************************************************************************)
(* Environment: the device reports errors on a queue, time passes.         *)
(***************************************************************************)
ErrLevels == {queue_failure_threshold + 1}
TimeSteps == {RECOVERY_WINDOW_MS, RECOVERY_WINDOW_MS + 1}

\* q->rx_errors (rx = TRUE) or q->tx_errors rises to level
DeviceError(q, rx, level) ==
    /\ IF rx
       THEN /\ level > rx_errors[q]
            /\ rx_errors' = [rx_errors EXCEPT ![q] = level]
            /\ UNCHANGED tx_errors
       ELSE /\ level > tx_errors[q]
            /\ tx_errors' = [tx_errors EXCEPT ![q] = level]
            /\ UNCHANGED rx_errors
    /\ quiet' = 0
    /\ UNCHANGED <<recovered, xmitHist>>
    /\ UNCHANGED <<failed_queue_list, failover_count, fo_active_queues,
                   fo_failed_queues>>
    /\ UNCHANGED <<queueVars, timeVars, poolVars, coalVars, schedVars, lifeVars, setupVars, pollVars, bufVars, threadVars>>

Elapse(d) ==
    /\ elapses < MaxElapse
    /\ now' = now + d
    /\ elapses' = elapses + 1
    /\ UNCHANGED <<queueVars, failVars, threadVars, histVars, poolVars, coalVars, schedVars, lifeVars, setupVars, pollVars, bufVars>>

(***************************************************************************)
(* DMA buffer pool of one NUMA node (virtio_nic_dma.c).  A slot is a       *)
(* struct virtio_nic_dma_buf: size, nr_pages, nents, and the pages and sgl *)
(* pointers, each "NULL", "live" (allocated) or "stale" (freed, the        *)
(* pointer still stored); pinned is the number of pages the slot owns.     *)
(* The write flag and dma_addr are not modelled.                           *)
(***************************************************************************)
Slots == 0 .. (PoolSlots - 1)
\* requested sizes in bytes: 0, 1, 2 and 3 pages
Sizes == {0, 1, PAGE_SIZE + 1, 2 * PAGE_SIZE + 1}

\* a slot after memset(buf, 0, sizeof(*buf))
ZeroBuf ==
    [size |-> 0, nr_pages |-> 0, nents |-> 0, pages |-> "NULL", sgl |-> "NULL",
     pinned |-> 0]

InitPools ==
    /\ buffers = [i \in Slots |-> ZeroBuf]
    /\ used = 0
    /\ pool_state = "ready"
    /\ pages_free = NodePages
    /\ ret = << >>
    /\ held = [i \in Slots |-> 0]
    /\ acquired = 0
    /\ released = 0

DIV_ROUND_UP(n, d) == (n + d - 1) \div d

\* virtio_nic_dma_alloc_buffer(buf, size, write) with avail pages left in the
\* node; pages_ok and sgl_ok are the outcomes of the two kcalloc calls, map_ok
\* that of dma_map_sg (dma_mapping_error is taken to report exactly a failed
\* mapping).  The result is the slot, the pages left, and whether it failed.
virtio_nic_dma_alloc_buffer(size, avail, pages_ok, sgl_ok, map_ok) ==
    LET nr_pages == DIV_ROUND_UP(size, PAGE_SIZE)
        buf == [ZeroBuf EXCEPT !.size = size, !.nr_pages = nr_pages]
    IN IF ~pages_ok
       THEN [buf |-> buf, avail |-> avail, err |-> TRUE]
       ELSE IF ~sgl_ok
       THEN \* kfree(pages) with buf->pages already set
            [buf |-> [buf EXCEPT !.pages = "stale"], avail |-> avail, err |-> TRUE]
       ELSE IF nr_pages > avail
       THEN \* alloc_pages_node fails: free_pages releases the pages got so
            \* far and both arrays; buf keeps size and both pointers
            [buf |-> [buf EXCEPT !.pages = "stale", !.sgl = "stale"],
             avail |-> avail, err |-> TRUE]
       ELSE IF ~map_ok
       THEN [buf |-> [buf EXCEPT !.pages = "stale", !.sgl = "stale",
                                 !.nents = nr_pages],
             avail |-> avail, err |-> TRUE]
       ELSE [buf |-> [buf EXCEPT !.pages = "live", !.sgl = "live",
                                 !.nents = nr_pages, !.pinned = nr_pages],
             avail |-> avail - nr_pages, err |-> FALSE]

\* sg_init_table(sgl, 0) marks entry nr_pages - 1 of an empty table: a write
\* outside any object, which the call survives or not
TouchesNoEntry(size, pages_ok, sgl_ok) ==
    DIV_ROUND_UP(size, PAGE_SIZE) = 0 /\ pages_ok /\ sgl_ok

RECURSIVE FirstFree(_, _)
\* the scan of virtio_nic_dma_get_buffer from slot i on: the first slot whose
\* size is 0, PoolSlots when there is none
FirstFree(bufs, i) ==
    IF i >= PoolSlots THEN PoolSlots
    ELSE IF bufs[i].size = 0 THEN i
    ELSE FirstFree(bufs, i + 1)

\* virtio_nic_dma_get_buffer(numa_node, size, write); survives is the outcome
\* of an out-of-bounds write, should the call make one
virtio_nic_dma_get_buffer(size, pages_ok, sgl_ok, map_ok, survives) ==
    LET i == FirstFree(buffers, 0)
        r == virtio_nic_dma_alloc_buffer(size, pages_free, pages_ok, sgl_ok, map_ok)
    IN /\ pool_state # "crashed"
       /\ IF pool_state = "freed" \/ i >= PoolSlots
          THEN /\ ret' = << >>
               /\ UNCHANGED <<buffers, used, pool_state, pages_free, held, acquired>>
          ELSE IF TouchesNoEntry(size, pages_ok, sgl_ok) /\ ~survives
          THEN /\ pool_state' = "crashed"
               /\ buffers' = [buffers EXCEPT ![i] = r.buf]
               /\ UNCHANGED <<used, pages_free, ret, held, acquired>>
          ELSE /\ buffers' = [buffers EXCEPT ![i] = r.buf]
               /\ pages_free' = r.avail
               /\ pool_state' = pool_state
               /\ IF r.err
                  THEN /\ ret' = << >>
                       /\ UNCHANGED <<used, held, acquired>>
                  ELSE /\ ret' = <<i>>
                       /\ used' = used + 1
                       /\ held' = [held EXCEPT ![i] = @ + 1]
                       /\ acquired' = acquired + 1
       /\ UNCHANGED <<released, queueVars, failVars, timeVars, threadVars, histVars,
                      coalVars, schedVars, lifeVars, setupVars, pollVars, bufVars>>

\* what virtio_nic_dma_free_buffer(buf) reads through a pointer to freed memory
ReadsFreedMemory(buf) == buf.pages = "stale" \/ buf.sgl = "stale"

\* the pages virtio_nic_dma_free_buffer(buf) gives back to the node
PagesOf(buf) == IF buf.pages = "live" THEN buf.pinned ELSE 0

\* virtio_nic_dma_put_buffer(buf, numa_node) with buf = &pool->buffers[i];
\* survives is the outcome of a use of freed memory, should the call make one
virtio_nic_dma_put_buffer(i, survives) ==
    /\ pool_state # "crashed"
    /\ IF pool_state = "freed"
       THEN UNCHANGED <<buffers, used, pool_state, pages_free>>
       ELSE IF ReadsFreedMemory(buffers[i]) /\ ~survives
       THEN /\ pool_state' = "crashed"
            /\ UNCHANGED <<buffers, used, pages_free>>
       ELSE /\ buffers' = [buffers EXCEPT ![i] = ZeroBuf]
            /\ pages_free' = pages_free + PagesOf(buffers[i])
            \* pool->used is an unsigned int: below 0 it wraps, and a
            \* negative value v stands here for 2^32 + v
            /\ used' = used - 1
            /\ pool_state' = pool_state
    /\ held' = [held EXCEPT ![i] = IF @ > 0 THEN @ - 1 ELSE @]
    /\ released' = released + 1
    /\ UNCHANGED <<ret, acquired, queueVars, failVars, timeVars, threadVars, histVars,
                   coalVars, schedVars, lifeVars, setupVars, pollVars, bufVars>>

\* virtio_nic_dma_cleanup_pools: every slot is freed, then the pool itself
virtio_nic_dma_cleanup_pools(survives) ==
    /\ pool_state = "ready"
    /\ IF (\E i \in Slots : ReadsFreedMemory(buffers[i])) /\ ~survives
       THEN /\ pool_state' = "crashed"
            /\ UNCHANGED <<buffers, used, pages_free>>
       ELSE /\ pool_state' = "freed"
            /\ buffers' = [i \in Slots |-> ZeroBuf]
            /\ pages_free' = pages_free
                                + SumOver([i \in Slots |-> PagesOf(buffers[i])], Slots)
            /\ used' = 0
    /\ UNCHANGED <<ret, held, acquired, released, queueVars, failVars, timeVars,
                   threadVars, histVars, coalVars, schedVars, lifeVars, setupVars, pollVars, bufVars>>

(***************************************************************************)
(* Interrupt coalescing (virtio_nic_irq.c).                                *)
(***************************************************************************)
InitCoalesce ==
    /\ coalesce_usecs = VIRTIO_NIC_COALESCE_USECS
    /\ clamped = "no"
    \* virtio_nic_setup_msix arms every queue's timer, adaptive_coalesce being set
    /\ coalesce_timer = [q \in Queues |-> VIRTIO_NIC_COALESCE_USECS]
    /\ new_coalesce = 0

Max(a, b) == IF a > b THEN a ELSE b
Min(a, b) == IF a < b THEN a ELSE b

\* a clamp with no lower bound
ClampAbove(usecs) == Min(usecs, max_coalesce_usecs)

\* the clamp of virtio_nic_update_coalesce
ClampUsecs(usecs) == Max(min_coalesce_usecs, Min(usecs, max_coalesce_usecs))

\* virtio_nic_update_coalesce(usecs) as a change of the module's state;
\* dev_found is whether dev_get_by_name finds the netdev
UpdateCoalesce(usecs, dev_found) ==
    IF dev_found
    THEN /\ coalesce_usecs' = ClampUsecs(usecs)
         /\ clamped' = IF usecs < min_coalesce_usecs THEN "low"
                       ELSE IF usecs > max_coalesce_usecs THEN "high"
                       ELSE "no"
         \* "Update all queue timers": the loop runs over priv->num_queues
         \* queues, which is 0 once the queues are torn down
         /\ coalesce_timer' = IF priv_queues = "live"
                              THEN [q \in Queues |-> ClampUsecs(usecs)]
                              ELSE coalesce_timer
    ELSE UNCHANGED <<coalesce_usecs, clamped, coalesce_timer>>

virtio_nic_update_coalesce(usecs, dev_found) ==
    /\ UpdateCoalesce(usecs, dev_found)
    /\ new_coalesce' = 0
    /\ UNCHANGED <<queueVars, failVars, timeVars, threadVars, histVars, poolVars, schedVars, lifeVars, setupVars, pollVars, bufVars>>

\* total_load of virtio_nic_adaptive_coalescing
TotalLoad == SumOver(pending_packets, Queues)

\* new_coalesce of virtio_nic_adaptive_coalescing
NewCoalesce(total_load, cur) ==
    IF total_load > HighLoad THEN Max(min_coalesce_usecs, cur \div 2)
    ELSE IF total_load < LowLoad THEN Min(max_coalesce_usecs, cur * 2)
    ELSE cur

\* virtio_nic_adaptive_coalescing(priv), adaptive_coalesce being set
virtio_nic_adaptive_coalescing(dev_found) ==
    LET new == NewCoalesce(TotalLoad, coalesce_usecs) IN
    /\ IF new # coalesce_usecs
       THEN UpdateCoalesce(new, dev_found)
       ELSE UNCHANGED <<coalesce_usecs, clamped, coalesce_timer>>
    /\ new_coalesce' = new
    /\ UNCHANGED <<queueVars, failVars, timeVars, threadVars, histVars, poolVars, schedVars, lifeVars, setupVars, pollVars, bufVars>>

\* traffic on large rings leaves queue q with n packets in flight
LoadLevels == {0, LowLoad, HighLoad + 1}
TrafficLoad(q, n) ==
    /\ pending_packets[q] # n
    /\ pending_packets' = [pending_packets EXCEPT ![q] = n]
    /\ UNCHANGED <<flow_list, flow_lock, q_lock, vq_avail, vq_used, tx_packets,
                   tx_bytes, total_tx_packets, total_tx_bytes>>
    /\ UNCHANGED <<failVars, timeVars, threadVars, histVars, poolVars, coalVars, schedVars, lifeVars, setupVars, pollVars, bufVars>>

(***************************************************************************)
(* Queue placement (virtio_nic_setup_queues, virtio_nic_setup_msix,        *)
(* virtio_nic_adaptive_scheduling).  The machine has NumNodes NUMA nodes   *)
(* of CpusPerNode CPUs each, CPUs numbered node by node.                   *)
(***************************************************************************)
\* num_possible_cpus()
NumCpus == NumNodes * CpusPerNode

\* cpu_to_node(cpu)
CpuNode(cpu) == cpu \div CpusPerNode

\* q->numa_node as virtio_nic_setup_queues sets it for queue i
QueueNode(i) == i \div (NumQueues \div NumNodes)

\* cpumask_first(cpumask_of_node(node)): the lowest CPU of the node, or a
\* value of at least NumCpus when the node has no CPU
FirstCpuOfNode(node) ==
    LET cpus == {c \in 0 .. (NumCpus - 1) : CpuNode(c) = node} IN
    IF cpus = {} THEN NumCpus
    ELSE CHOOSE c \in cpus : \A d \in cpus : c <= d

\* the CPU virtio_nic_setup_msix picks for queue i
MsixCpu(i) ==
    LET cpu == FirstCpuOfNode(i \div (NumQueues \div NumNodes)) IN
    IF cpu >= NumCpus THEN 0 ELSE cpu

\* virtio_nic_assign_queue_to_cpu(q, cpu) on the cpu_id fields
AssignQueueToCpu(cpus, q, cpu) ==
    IF cpu < 0 \/ cpu >= NumCpus THEN cpus
    ELSE [cpus EXCEPT ![q] = cpu]

\* q->cpu_id after virtio_nic_setup_queues (-1) and virtio_nic_setup_msix
InitPlacement ==
    /\ cpu_id = [i \in Queues |->
                    AssignQueueToCpu([q \in Queues |-> 0 - 1], i, MsixCpu(i))[i]]
    /\ stayed = {}

\* load > adaptive_threshold / priv->num_queues
Overloaded(q) == pending_packets[q] > adaptive_threshold \div NumQueues

RECURSIVE RebalanceFrom(_, _)
\* the second loop of virtio_nic_adaptive_scheduling from queue i on
RebalanceFrom(cpus, i) ==
    IF i >= NumQueues THEN cpus
    ELSE IF Overloaded(i)
    THEN RebalanceFrom(AssignQueueToCpu(cpus, i, (i + 1) % NumCpus), i + 1)
    ELSE RebalanceFrom(cpus, i + 1)

\* virtio_nic_adaptive_scheduling(priv), enable_adaptive_scheduling being set
virtio_nic_adaptive_scheduling ==
    /\ cpu_id' = IF SumOver(pending_packets, Queues) > adaptive_threshold
                 THEN RebalanceFrom(cpu_id, 0)
                 ELSE cpu_id
    /\ stayed' = IF SumOver(pending_packets, Queues) > adaptive_threshold
                 THEN {q \in Queues : /\ Overloaded(q)
                                      /\ cpu_id'[q] = cpu_id[q]}
                 ELSE {}
    /\ UNCHANGED <<queueVars, failVars, timeVars, threadVars, histVars, poolVars, coalVars, lifeVars, setupVars, pollVars, bufVars>>

(***************************************************************************)
(* Device removal (virtio_nic_remove), one statement at a time, so that    *)
(* timers may expire between its statements.                               *)
(***************************************************************************)
\* the device as virtio_nic_probe leaves it: the health-check timer armed by
\* virtio_nic_init_failover, the queue array and the failover state allocated
InitLifetime ==
    /\ health_check_timer = TRUE
    /\ failover_state = "live"
    /\ priv_queues = "live"
    /\ remove_pc = "bound"
    /\ torn = 0

\* a timer that is left pending
LeaveTimerPending(pending) == pending

\* del_timer_sync(timer): on return the timer is neither pending nor running
\* (the callback re-arms it only from inside itself, which del_timer_sync
\* waits out)
StopTimer(pending) == FALSE

\* virtio_nic_remove is entered
virtio_nic_remove ==
    /\ remove_pc = "bound"
    /\ remove_pc' = "cleanup_failover"
    /\ UNCHANGED <<health_check_timer, failover_state, priv_queues, torn>>
    /\ UNCHANGED <<queueVars, failVars, timeVars, poolVars, coalVars, schedVars,
                   setupVars, pollVars, bufVars, threadVars, histVars>>

\* virtio_nic_cleanup_failover up to del_timer_sync, which returns only when
\* no health check is running: a hung one keeps the removal waiting for ever
cleanup_failover_del_timer ==
    /\ remove_pc = "cleanup_failover"
    /\ pc["timer"] = "idle"
    /\ health_check_timer' = StopTimer(health_check_timer)
    /\ remove_pc' = "cleanup_failover_free"
    /\ UNCHANGED <<failover_state, priv_queues, torn>>
    /\ UNCHANGED <<queueVars, failVars, timeVars, poolVars, coalVars, schedVars,
                   setupVars, pollVars, bufVars, threadVars, histVars>>

\* the rest of virtio_nic_cleanup_failover: the records are freed, the
\* workqueue destroyed, the failover state freed and its pointer cleared
cleanup_failover_free ==
    /\ remove_pc = "cleanup_failover_free"
    /\ failed_queue_list' = << >>
    /\ failover_state' = "NULL"
    /\ remove_pc' = "free_irqs"
    /\ UNCHANGED <<rx_errors, tx_errors, failover_count, fo_active_queues,
                   fo_failed_queues>>
    /\ UNCHANGED <<health_check_timer, priv_queues, torn>>
    /\ UNCHANGED <<queueVars, timeVars, poolVars, coalVars, schedVars, setupVars, pollVars, bufVars,
                   threadVars, histVars>>

\* virtio_nic_free_irqs
virtio_nic_free_irqs ==
    /\ remove_pc = "free_irqs"
    /\ remove_pc' = "teardown_queues"
    /\ UNCHANGED <<health_check_timer, failover_state, priv_queues, torn>>
    /\ UNCHANGED <<queueVars, failVars, timeVars, poolVars, coalVars, schedVars,
                   setupVars, pollVars, bufVars, threadVars, histVars>>

\* one round of the loop of virtio_nic_teardown_queues, on queue torn: its
\* timer and work are cancelled, its NAPI context deleted, its flows freed
teardown_queues_loop ==
    /\ remove_pc = "teardown_queues"
    /\ torn < NumQueues
    /\ coalesce_timer' = [coalesce_timer EXCEPT ![torn] =
                              IF StopTimer(@ # 0) THEN @ ELSE 0]
    /\ flow_list' = [flow_list EXCEPT ![torn] = << >>]
    /\ torn' = torn + 1
    /\ UNCHANGED <<coalesce_usecs, clamped, new_coalesce>>
    /\ UNCHANGED <<flow_lock, q_lock, pending_packets, vq_avail, vq_used, tx_packets,
                   tx_bytes, total_tx_packets, total_tx_bytes>>
    /\ UNCHANGED <<health_check_timer, failover_state, priv_queues, remove_pc>>
    /\ UNCHANGED <<failVars, timeVars, poolVars, schedVars, setupVars, pollVars, bufVars, threadVars, histVars>>

\* the end of virtio_nic_teardown_queues: the virtqueues are deleted and the
\* queue array freed; virtio_nic_remove then unregisters and frees the netdev
teardown_queues_free ==
    /\ remove_pc = "teardown_queues"
    /\ torn = NumQueues
    /\ priv_queues' = "NULL"
    /\ remove_pc' = "removed"
    /\ UNCHANGED <<health_check_timer, failover_state, torn>>
    /\ UNCHANGED <<queueVars, failVars, timeVars, poolVars, coalVars, schedVars,
                   setupVars, pollVars, bufVars, threadVars, histVars>>

\* virtio_nic_coalesce_timer(q): the expiry of q's coalescing timer, which
\* schedules NAPI and does not re-arm itself
virtio_nic_coalesce_timer(q) ==
    /\ coalesce_timer[q] # 0
    /\ coalesce_timer' = [coalesce_timer EXCEPT ![q] = 0]
    /\ UNCHANGED <<coalesce_usecs, clamped, new_coalesce>>
    /\ UNCHANGED <<queueVars, failVars, timeVars, poolVars, schedVars, lifeVars, setupVars, pollVars, bufVars,
                   threadVars, histVars>>

(***************************************************************************)
(* Queue setup at probe (virtio_nic_setup_queues) for any queue count and  *)
(* any number of NUMA nodes.                                               *)
(***************************************************************************)
\* virtio_nic_probe before virtio_nic_setup_queues: active_queues = 0
InitSetup ==
    /\ setup_queues = 0
    /\ setup_nodes = 1
    /\ setup_err = "none"
    /\ setup_numa_node = << >>
    /\ setup_active = 0

\* numa_node of queue i in the loop of virtio_nic_setup_queues; a division
\* by zero that does not trap yields 0
SetupNumaNode(i, queues_per_numa) ==
    IF queues_per_numa = 0 THEN 0 ELSE i \div queues_per_numa

\* virtio_nic_setup_queues with priv->num_queues = n on a machine of d NUMA
\* nodes; alloc_ok: kcalloc succeeds, vqs_ok: virtio_find_vqs succeeds,
\* traps: an integer division by zero raises a divide error on this CPU
virtio_nic_setup_queues(n, d, alloc_ok, vqs_ok, traps) ==
    LET queues_per_numa == n \div d IN
    /\ setup_queues' = n
    /\ setup_nodes' = d
    /\ IF ~alloc_ok
       THEN /\ setup_err' = "ENOMEM"
            /\ setup_numa_node' = << >>
            /\ setup_active' = 0
       ELSE IF ~vqs_ok
       THEN /\ setup_err' = "EIO"
            /\ setup_numa_node' = << >>
            /\ setup_active' = 0
       ELSE IF queues_per_numa = 0 /\ traps
       THEN /\ setup_err' = "oops"
            /\ setup_numa_node' = << >>
            /\ setup_active' = 0
       ELSE /\ setup_err' = "ok"
            /\ setup_numa_node' = [k \in 1 .. n |-> SetupNumaNode(k - 1, queues_per_numa)]
            /\ setup_active' = n
    /\ UNCHANGED <<queueVars, failVars, timeVars, poolVars, coalVars, schedVars, lifeVars,
                   pollVars, bufVars, threadVars, histVars>>

(***************************************************************************)
(* The receive side: virtio_nic_interrupt and virtio_nic_poll.             *)
(***************************************************************************)
InitPoll ==
    /\ cb_enabled = [q \in Queues |-> TRUE]
    /\ rx_packets = [q \in Queues |-> 0]
    /\ rx_bytes = [q \in Queues |-> 0]
    /\ total_rx_packets = 0
    /\ total_rx_bytes = 0
    /\ poll_ret = 0

\* the used lengths a device reports: 0 for a buffer it wrote nothing into
\* (every buffer virtio_nic_start_xmit adds is device-readable only), or a
\* packet length
PollLens == {0, 2}

\* virtio_nic_interrupt(irq, q): the callbacks are disabled and NAPI is
\* scheduled
virtio_nic_interrupt(q) ==
    /\ cb_enabled[q]
    /\ cb_enabled' = [cb_enabled EXCEPT ![q] = FALSE]
    /\ UNCHANGED <<rx_packets, rx_bytes, total_rx_packets, total_rx_bytes, poll_ret>>
    /\ UNCHANGED <<queueVars, failVars, timeVars, poolVars, coalVars, schedVars, lifeVars,
                   setupVars, bufVars, threadVars, histVars>>

RECURSIVE PollFrom(_, _, _)
\* the loop of virtio_nic_poll: s.used completions are on the ring, s.removed
\* have been taken off it by virtio_nic_dequeue, lens[k] is the used length
\* of the k-th one
PollFrom(s, lens, budget) ==
    IF s.work_done >= budget THEN s
    ELSE IF s.used = 0 THEN s       \* virtio_nic_dequeue returned NULL: break
    ELSE LET len == lens[s.removed + 1]
             t == [s EXCEPT !.used = @ - 1, !.removed = @ + 1] IN
         IF len > 0
         THEN PollFrom([t EXCEPT !.work_done = @ + 1, !.bytes = @ + len], lens, budget)
         ELSE PollFrom(t, lens, budget)

\* virtio_nic_poll(napi, budget) on queue q
virtio_nic_poll(q, budget, lens) ==
    LET s == PollFrom([used |-> vq_used[q], removed |-> 0, work_done |-> 0, bytes |-> 0],
                      lens, budget) IN
    /\ q_lock[q] = "free"
    /\ vq_used' = [vq_used EXCEPT ![q] = s.used]
    /\ pending_packets' = [pending_packets EXCEPT ![q] = @ - s.removed]
    /\ rx_packets' = [rx_packets EXCEPT ![q] = @ + s.work_done]
    /\ rx_bytes' = [rx_bytes EXCEPT ![q] = @ + s.bytes]
    /\ total_rx_packets' = total_rx_packets + s.work_done
    /\ total_rx_bytes' = total_rx_bytes + s.bytes
    \* napi_complete and virtqueue_enable_cb
    /\ cb_enabled' = IF s.work_done < budget
                     THEN [cb_enabled EXCEPT ![q] = TRUE]
                     ELSE cb_enabled
    /\ poll_ret' = s.work_done
    /\ UNCHANGED <<flow_list, flow_lock, q_lock, vq_avail, tx_packets, tx_bytes,
                   total_tx_packets, total_tx_bytes>>
    /\ UNCHANGED <<failVars, timeVars, poolVars, coalVars, schedVars, lifeVars, setupVars,
                   bufVars, threadVars, histVars>>

(***************************************************************************)
(* virtio_nic_dma_alloc_buffer for any size_t size.  A size is written     *)
(* [wraps, pages, rem] and stands for                                      *)
(* (wraps * 2^32 + pages) * PAGE_SIZE + rem bytes, so that sizes beyond    *)
(* the range of unsigned int nr_pages can be told apart.                   *)
(***************************************************************************)
BufSizes ==
    [wraps : 0 .. MaxBufWraps, pages : 0 .. MaxBufPages, rem : {0, 1, PAGE_SIZE - 1}]

InitBuilt ==
    built = [size |-> [wraps |-> 0, pages |-> 0, rem |-> 0], ret |-> "none", sgl |-> << >>]

\* unsigned int nr_pages = DIV_ROUND_UP(size, PAGE_SIZE): the division is done
\* in the 64 bits of size_t and its result stored in 32 bits, which drops the
\* multiples of 2^32
NrPages(size) == DIV_ROUND_UP(size.pages * PAGE_SIZE + size.rem, PAGE_SIZE)

\* the scatterlist after the loop of sg_set_page(&sgl[i], pages[i], PAGE_SIZE, 0)
SgTable(nr_pages) == [i \in 1 .. nr_pages |-> [offset |-> 0, length |-> PAGE_SIZE]]

\* virtio_nic_dma_alloc_buffer(buf, size, write) on a node with pages to
\* spare; survives: the write of sg_init_table(sgl, 0) outside the empty
\* table does not stop the caller
dma_alloc_buffer_call(size, pages_ok, sgl_ok, map_ok, survives) ==
    LET nr_pages == NrPages(size)
        r == virtio_nic_dma_alloc_buffer(size.pages * PAGE_SIZE + size.rem,
                                         MaxBufPages + 1, pages_ok, sgl_ok, map_ok)
    IN
    /\ built' = IF nr_pages = 0 /\ pages_ok /\ sgl_ok /\ ~survives
                THEN [size |-> size, ret |-> "oops", sgl |-> << >>]
                ELSE IF r.err
                THEN [size |-> size, ret |-> "ENOMEM", sgl |-> << >>]
                ELSE [size |-> size, ret |-> "ok", sgl |-> SgTable(r.buf.nents)]
    /\ UNCHANGED <<queueVars, failVars, timeVars, poolVars, coalVars, schedVars, lifeVars,
                   setupVars, pollVars, threadVars, histVars>>

Init ==
    /\ InitQueues
    /\ InitFailover
    /\ InitTime
    /\ InitThreads
    /\ InitPools
    /\ InitCoalesce
    /\ InitPlacement
    /\ InitLifetime
    /\ InitSetup
    /\ InitPoll
    /\ InitBuilt
    /\ quiet = 0
    /\ recovered = {}
    /\ ring_busy = FALSE
    /\ xmit_ok = 0
    /\ sent_hashes = {}
    /\ dma_mapped = 0

\* the next health check raises no failure_count above MaxFailures
FailureCountsBounded ==
    \A i \in 1 .. Len(failed_queue_list) :
        \/ failed_queue_list[i].failure_count < MaxFailures
        \/ ~ExceedsThreshold(rx_errors, tx_errors, failed_queue_list[i].queue_id)

\* the queues for which the next health check allocates a failover record
NeedRecord ==
    {q \in Queues : /\ ExceedsThreshold(rx_errors, tx_errors, q)
                    /\ RecordIndex(failed_queue_list, q, 1) = 0}

(***************************************************************************)
(* Spec: traffic, device errors and the health check, one handler at a     *)
(* time.                                                                   *)
(***************************************************************************)
Next ==
    \/ \E h \in Hashes, len \in FailoverLens, map_ok \in BOOLEAN, alloc_ok \in BOOLEAN :
          /\ total_tx_packets < MaxXmit
          /\ virtio_nic_start_xmit(h, len, map_ok, alloc_ok)
    \/ \E ok_set \in SUBSET NeedRecord :
          /\ FailureCountsBounded
          /\ virtio_nic_health_check_timer(ok_set)
    \/ \E q \in Queues, rx \in BOOLEAN, l \in ErrLevels :
          /\ ~ExceedsThreshold(rx_errors, tx_errors, q)
          /\ DeviceError(q, rx, l)

Spec == Init /\ [][Next]_vars

(***************************************************************************)
(* SpecApi: traffic and the exported migration calls, one handler at a     *)
(* time.                                                                   *)
(***************************************************************************)
NextApi ==
    \/ \E h \in Hashes, len \in Lens, map_ok \in BOOLEAN, alloc_ok \in BOOLEAN :
          /\ total_tx_packets < MaxXmitApi
          /\ virtio_nic_start_xmit(h, len, map_ok, alloc_ok)
    \/ \E o \in Queues, n \in Queues \cup {NoQueue} : virtio_nic_remap_queue(o, n)
    \/ \E k \in FlowKeys, n \in Queues : virtio_nic_flow_reassign(k, n)

SpecApi == Init /\ [][NextApi]_vars

(***************************************************************************)
(* SpecRing: transmits, the device and completions on the rings.           *)
(***************************************************************************)
NextRing ==
    \/ \E h \in Hashes, len \in Lens, map_ok \in BOOLEAN, alloc_ok \in BOOLEAN :
          /\ total_tx_packets < MaxXmitRing
          /\ virtio_nic_start_xmit(h, len, map_ok, alloc_ok)
    \/ \E q \in Queues : DeviceUse(q)
    \/ \E q \in Queues : virtio_nic_dequeue(q)

SpecRing == Init /\ [][NextRing]_vars

(***************************************************************************)
(* SpecPool: acquires and releases on the buffer pool, and its teardown.   *)
(* A buffer is released by the caller it was handed to.                    *)
(***************************************************************************)
NextPool ==
    \/ \E size \in Sizes, pages_ok \in BOOLEAN, sgl_ok \in BOOLEAN,
          map_ok \in BOOLEAN, survives \in BOOLEAN :
          /\ acquired < MaxAcquires
          /\ virtio_nic_dma_get_buffer(size, pages_ok, sgl_ok, map_ok, survives)
    \/ \E i \in Slots, survives \in BOOLEAN :
          /\ held[i] > 0
          /\ virtio_nic_dma_put_buffer(i, survives)
    \/ \E survives \in BOOLEAN : virtio_nic_dma_cleanup_pools(survives)

SpecPool == Init /\ [][NextPool]_vars

(***************************************************************************)
(* SpecCoal: the coalescing interval under requests and changing load.     *)
(***************************************************************************)
Requests == (0 - 1) .. MaxRequestUsecs

NextCoal ==
    \/ \E usecs \in Requests, dev_found \in BOOLEAN :
          virtio_nic_update_coalesce(usecs, dev_found)
    \/ \E dev_found \in BOOLEAN : virtio_nic_adaptive_coalescing(dev_found)
    \/ \E q \in Queues, n \in LoadLevels : TrafficLoad(q, n)

SpecCoal == Init /\ [][NextCoal]_vars

(***************************************************************************)
(* SpecRec: device errors, the health check, the clock and the recovery    *)
(* sweep, one handler at a time, with no traffic.                          *)
(***************************************************************************)
NextRec ==
    \/ \E ok_set \in SUBSET NeedRecord :
          /\ FailureCountsBounded
          /\ virtio_nic_health_check_timer(ok_set)
    \/ \E q \in Queues, rx \in BOOLEAN, l \in ErrLevels :
          /\ ~ExceedsThreshold(rx_errors, tx_errors, q)
          /\ DeviceError(q, rx, l)
    \/ \E d \in TimeSteps : Elapse(d)
    \/ virtio_nic_queue_recovery_work

SpecRec == Init /\ [][NextRec]_vars

(***************************************************************************)
(* SpecSched: traffic, changing load and the scheduler's rebalance.        *)
(***************************************************************************)
NextSched ==
    \/ \E h \in Hashes, len \in Lens, map_ok \in BOOLEAN, alloc_ok \in BOOLEAN :
          /\ total_tx_packets < MaxXmit
          /\ virtio_nic_start_xmit(h, len, map_ok, alloc_ok)
    \/ \E q \in Queues, n \in LoadLevels : TrafficLoad(q, n)
    \/ virtio_nic_adaptive_scheduling

SpecSched == Init /\ [][NextSched]_vars

(***************************************************************************)
(* SpecStep: virtio_nic_start_xmit one critical section at a time on CPU   *)
(* tx, with the device and the completion path running in between.         *)
(*   pc: idle -> stats -> idle                                             *)
(* While CPU tx is between the two sections, arg_flow is skb->hash,        *)
(* arg_old the index of q and arg_new skb->len.                            *)
(***************************************************************************)
\* virtio_nic_start_xmit up to the return of virtio_nic_enqueue: the queue
\* choice, the mapping and the critical section of q->lock
start_xmit_enqueue(hash, len, map_ok, alloc_ok) ==
    LET q == XmitQueue(hash) IN
    /\ pc["tx"] = "idle"
    /\ q_lock[q] = "free"
    /\ flow_lock[q] = "free"
    /\ map_ok => dma_mapped < MaxMapped
    /\ IF map_ok /\ RingHasRoom(q)
       THEN /\ EnqueueOk(q, FlowKey(hash), len, alloc_ok)
            /\ pc' = [pc EXCEPT !["tx"] = "stats"]
            /\ arg_flow' = [arg_flow EXCEPT !["tx"] = hash]
            /\ arg_old' = [arg_old EXCEPT !["tx"] = q]
            /\ arg_new' = [arg_new EXCEPT !["tx"] = len]
            /\ UNCHANGED <<flow_lock, vq_used, tx_packets, tx_bytes,
                           total_tx_packets, total_tx_bytes>>
       ELSE \* NETDEV_TX_BUSY
            UNCHANGED <<queueVars, pc, arg_flow, arg_old, arg_new>>
    /\ ring_busy' = (ring_busy \/ (map_ok /\ ~RingHasRoom(q)))
    /\ dma_mapped' = DmaMapSkb(dma_mapped, map_ok)
    /\ UNCHANGED <<xmit_ok, sent_hashes, hand, found>>
    /\ UNCHANGED <<failVars, timeVars, poolVars, coalVars, schedVars, lifeVars, setupVars, pollVars, bufVars, failHist>>

\* the critical section of priv->stats_lock and the return of NETDEV_TX_OK
start_xmit_stats ==
    /\ pc["tx"] = "stats"
    /\ TxStatsUpdate(arg_old["tx"], arg_new["tx"])
    /\ xmit_ok' = xmit_ok + 1
    /\ sent_hashes' = sent_hashes \cup {arg_flow["tx"]}
    /\ pc' = [pc EXCEPT !["tx"] = "idle"]
    /\ UNCHANGED <<flow_list, flow_lock, q_lock, pending_packets, vq_avail, vq_used>>
    /\ UNCHANGED <<ring_busy, dma_mapped, hand, arg_old, arg_new, arg_flow, found>>
    /\ UNCHANGED <<failVars, timeVars, poolVars, coalVars, schedVars, lifeVars, setupVars, pollVars, bufVars, failHist>>

NextStep ==
    \/ \E h \in Hashes, len \in Lens, map_ok \in BOOLEAN, alloc_ok \in BOOLEAN :
          /\ total_tx_packets < MaxXmitRing
          /\ start_xmit_enqueue(h, len, map_ok, alloc_ok)
    \/ start_xmit_stats
    \/ \E q \in Queues : DeviceUse(q)
    \/ \E q \in Queues : virtio_nic_dequeue(q)

SpecStep == Init /\ [][NextStep]_vars

(***************************************************************************)
(* SpecRedirect: as Spec, with traffic going on after a failover.          *)
(***************************************************************************)
NextRedirect ==
    \/ \E h \in Hashes, len \in FailoverLens, map_ok \in BOOLEAN, alloc_ok \in BOOLEAN :
          /\ total_tx_packets < MaxXmitApi
          /\ virtio_nic_start_xmit(h, len, map_ok, alloc_ok)
    \/ \E ok_set \in SUBSET NeedRecord :
          /\ FailureCountsBounded
          /\ virtio_nic_health_check_timer(ok_set)
    \/ \E q \in Queues, rx \in BOOLEAN, l \in ErrLevels :
          /\ ~ExceedsThreshold(rx_errors, tx_errors, q)
          /\ DeviceError(q, rx, l)

SpecRedirect == Init /\ [][NextRedirect]_vars

(***************************************************************************)
(* SpecMig: the flow-migration code one lock operation at a time.  CPUs    *)
(* m1 and m2 each run virtio_nic_reassign_queue_flows once, CPU r runs     *)
(* virtio_nic_flow_reassign once; transmits fill the flow tables.          *)
(*   pc: idle -> lock_old -> loop -> (lock_new -> add -> loop)* ->         *)
(*       unlock_old -> done            for m1, m2                          *)
(*   pc: idle -> scan -> search -> (scan | lock_new -> add) -> done  for r *)
(***************************************************************************)
Migrators == {"m1", "m2"}
otherVars == <<q_lock, pending_packets, vq_avail, vq_used, tx_packets, tx_bytes,
               total_tx_packets, total_tx_bytes, failVars, timeVars, poolVars, coalVars, schedVars, lifeVars, setupVars, pollVars, bufVars, histVars>>

\* a CPU enters virtio_nic_reassign_queue_flows(priv, old_queue, new_queue)
reassign_queue_flows_call(me, old_queue, new_queue) ==
    /\ pc[me] = "idle"
    /\ pc' = [pc EXCEPT ![me] = "lock_old"]
    /\ arg_old' = [arg_old EXCEPT ![me] = old_queue]
    /\ arg_new' = [arg_new EXCEPT ![me] = new_queue]
    /\ UNCHANGED <<flow_list, flow_lock, hand, arg_flow, found, otherVars>>

\* spin_lock_irqsave(&old_q->flow_lock, flags)
reassign_queue_flows_lock_old(me) ==
    /\ pc[me] = "lock_old"
    /\ flow_lock[arg_old[me]] = "free"
    /\ flow_lock' = [flow_lock EXCEPT ![arg_old[me]] = me]
    /\ pc' = [pc EXCEPT ![me] = "loop"]
    /\ UNCHANGED <<flow_list, hand, arg_old, arg_new, arg_flow, found, otherVars>>

\* list_for_each_entry_safe: list_del of the next entry and the write of its
\* queue_id, or the end of the list
reassign_queue_flows_loop(me) ==
    /\ pc[me] = "loop"
    /\ IF flow_list[arg_old[me]] = << >>
       THEN /\ pc' = [pc EXCEPT ![me] = "unlock_old"]
            /\ UNCHANGED <<flow_list, hand>>
       ELSE /\ flow_list' = [flow_list EXCEPT ![arg_old[me]] = Tail(@)]
            /\ hand' = [hand EXCEPT ![me] =
                           <<[Head(flow_list[arg_old[me]]) EXCEPT
                                 !.queue_id = arg_new[me]]>>]
            /\ pc' = [pc EXCEPT ![me] = "lock_new"]
    /\ UNCHANGED <<flow_lock, arg_old, arg_new, arg_flow, found, otherVars>>

\* spin_lock(&new_q->flow_lock), in both migration functions
lock_new(me) ==
    /\ pc[me] = "lock_new"
    /\ flow_lock[arg_new[me]] = "free"
    /\ flow_lock' = [flow_lock EXCEPT ![arg_new[me]] = me]
    /\ pc' = [pc EXCEPT ![me] = "add"]
    /\ UNCHANGED <<flow_list, hand, arg_old, arg_new, arg_flow, found, otherVars>>

\* list_add_tail(&flow->list, &new_q->flow_list); spin_unlock(&new_q->flow_lock)
reassign_queue_flows_add(me) ==
    /\ pc[me] = "add"
    /\ flow_list' = [flow_list EXCEPT ![arg_new[me]] = @ \o hand[me]]
    /\ hand' = [hand EXCEPT ![me] = << >>]
    /\ flow_lock' = [flow_lock EXCEPT ![arg_new[me]] = "free"]
    /\ pc' = [pc EXCEPT ![me] = "loop"]
    /\ UNCHANGED <<arg_old, arg_new, arg_flow, found, otherVars>>

\* spin_unlock_irqrestore(&old_q->flow_lock, flags)
reassign_queue_flows_unlock_old(me) ==
    /\ pc[me] = "unlock_old"
    /\ flow_lock' = [flow_lock EXCEPT ![arg_old[me]] = "free"]
    /\ pc' = [pc EXCEPT ![me] = "done"]
    /\ UNCHANGED <<flow_list, hand, arg_old, arg_new, arg_flow, found, otherVars>>

\* CPU r enters virtio_nic_flow_reassign(priv, flow_id, new_queue); arg_old
\* is the loop index i
flow_reassign_call(flow_id, new_queue) ==
    /\ pc["r"] = "idle"
    /\ pc' = [pc EXCEPT !["r"] = "scan"]
    /\ arg_flow' = [arg_flow EXCEPT !["r"] = flow_id]
    /\ arg_new' = [arg_new EXCEPT !["r"] = new_queue]
    /\ arg_old' = [arg_old EXCEPT !["r"] = 0]
    /\ UNCHANGED <<flow_list, flow_lock, hand, found, otherVars>>

\* the loop test i < priv->num_queues and spin_lock_irqsave(&q->flow_lock)
flow_reassign_scan ==
    /\ pc["r"] = "scan"
    /\ IF arg_old["r"] >= NumQueues
       THEN /\ pc' = [pc EXCEPT !["r"] = "done"]
            /\ UNCHANGED flow_lock
       ELSE /\ flow_lock[arg_old["r"]] = "free"
            /\ flow_lock' = [flow_lock EXCEPT ![arg_old["r"]] = "r"]
            /\ pc' = [pc EXCEPT !["r"] = "search"]
    /\ UNCHANGED <<flow_list, hand, arg_old, arg_new, arg_flow, found, otherVars>>

\* list_for_each_entry over queue i under its lock: the flow is met, unlinked
\* and retagged, or the lock is dropped and the scan moves to queue i + 1
flow_reassign_search ==
    LET i == arg_old["r"]
        j == FirstIndex(flow_list[i], arg_flow["r"], 1)
    IN /\ pc["r"] = "search"
       /\ IF j = 0
          THEN /\ flow_lock' = [flow_lock EXCEPT ![i] = "free"]
               /\ arg_old' = [arg_old EXCEPT !["r"] = i + 1]
               /\ pc' = [pc EXCEPT !["r"] = "scan"]
               /\ UNCHANGED <<flow_list, hand, found>>
          ELSE /\ flow_list' = [flow_list EXCEPT ![i] = ListDel(@, j)]
               /\ hand' = [hand EXCEPT !["r"] =
                              <<[flow_list[i][j] EXCEPT !.queue_id = arg_new["r"]]>>]
               /\ found' = [found EXCEPT !["r"] = TRUE]
               /\ pc' = [pc EXCEPT !["r"] = "lock_new"]
               /\ UNCHANGED <<flow_lock, arg_old>>
       /\ UNCHANGED <<arg_new, arg_flow, otherVars>>

\* list_add_tail, spin_unlock(&new_q->flow_lock),
\* spin_unlock_irqrestore(&q->flow_lock, flags), return
flow_reassign_add ==
    /\ pc["r"] = "add"
    /\ flow_list' = [flow_list EXCEPT ![arg_new["r"]] = @ \o hand["r"]]
    /\ hand' = [hand EXCEPT !["r"] = << >>]
    /\ flow_lock' = [flow_lock EXCEPT ![arg_new["r"]] = "free",
                                      ![arg_old["r"]] = "free"]
    /\ pc' = [pc EXCEPT !["r"] = "done"]
    /\ UNCHANGED <<arg_old, arg_new, arg_flow, found, otherVars>>

\* the flow keys some table holds
RecordedKeys == {k \in FlowKeys : \E q \in Queues : FirstIndex(flow_list[q], k, 1) > 0}

NextMig ==
    \/ \E h \in Hashes, len \in FailoverLens, map_ok \in BOOLEAN, alloc_ok \in BOOLEAN :
          /\ total_tx_packets < MaxXmitMig
          /\ flow_lock[XmitQueue(h)] = "free"
          /\ virtio_nic_start_xmit(h, len, map_ok, alloc_ok)
    \/ \E me \in Migrators, o \in Queues, n \in Queues :
          reassign_queue_flows_call(me, o, n)
    \/ \E me \in Migrators : reassign_queue_flows_lock_old(me)
    \/ \E me \in Migrators : reassign_queue_flows_loop(me)
    \/ \E me \in Migrators \cup {"r"} : lock_new(me)
    \/ \E me \in Migrators : reassign_queue_flows_add(me)
    \/ \E me \in Migrators : reassign_queue_flows_unlock_old(me)
    \/ \E k \in RecordedKeys, n \in Queues : flow_reassign_call(k, n)
    \/ flow_reassign_scan
    \/ flow_reassign_search
    \/ flow_reassign_add

SpecMig == Init /\ [][NextMig]_vars

(***************************************************************************)
(* Flow tables as sets.                                                    *)
(***************************************************************************)
\* the queues whose flow table holds an entry with this key
Owners(key) == {q \in Queues : FirstIndex(flow_list[q], key, 1) > 0}

\* the number of entries linked in all flow tables
LinkedEntries == SumOver([q \in Queues |-> Len(flow_list[q])], Queues)

\* the home queue of a flow entry: the queue its packets are transmitted on
\* (hashes below FlowKeyModulus are their own flow key)
HomeQueue(flow) == XmitQueue(flow.flow_id)

(***************************************************************************)
(* C1  Flow ownership uniqueness: after any sequence of transmits and      *)
(* flow migrations no flow key is present in the flow tables of two        *)
(* queues.  (Stated as the claim has it; the code does not keep it.)       *)
(***************************************************************************)
FlowOwnershipUnique ==
    \A key \in FlowKeys : Cardinality(Owners(key)) <= 1

(***************************************************************************)
(* C9  Failover idempotence: a health check that follows a health check    *)
(* with no error reported in between migrates nothing: no flow entry       *)
(* changes table, no entry is unlinked, no failover attempt is counted.    *)
(***************************************************************************)
FailoverIdempotent ==
    [][\A ok_set \in SUBSET NeedRecord :
          (quiet >= 1 /\ quiet' >= 1 /\ virtio_nic_health_check_timer(ok_set))
              => /\ flow_list' = flow_list
                 /\ hand' = hand
                 /\ failover_count' = failover_count]_vars

\* C9 witness: a second health check has run after the one that declared a
\* queue failed and moved its flow to another queue
FailoverIdempotentWitness ==
    /\ quiet = 2
    /\ failover_count > 0
    /\ \E q \in Queues, t \in Queues :
          /\ q # t
          /\ RecordIndex(failed_queue_list, q, 1) > 0
          /\ flow_list[q] = << >>
          /\ \E i \in 1 .. Len(flow_list[t]) :
                /\ HomeQueue(flow_list[t][i]) = q
                /\ flow_list[t][i].queue_id = t

(***************************************************************************)
(* C10  Failover migrates everything: when a health check finds queue q    *)
(* over the error threshold with the failover attempt count below the      *)
(* maximum (and memory for the failover records), then after the check     *)
(* every flow entry q held is in the table of one target queue with        *)
(* queue_id equal to the target, q's table is empty, no entry has been     *)
(* lost and q has a failover record.  (Stated as the claim has it; the     *)
(* code does not keep it.)                                                 *)
(***************************************************************************)
FailingBefore(q) == {p \in Queues : p < q /\ ExceedsThreshold(rx_errors, tx_errors, p)}

FailoverMigratesAll ==
    [][\A ok_set \in SUBSET Queues : \A q \in Queues :
          ( /\ virtio_nic_health_check_timer(ok_set)
            /\ ExceedsThreshold(rx_errors, tx_errors, q)
            /\ failover_count + Cardinality(FailingBefore(q)) < max_failover_count
            /\ NeedRecord \subseteq ok_set )
              => /\ \E t \in Queues :
                       \A i \in 1 .. Len(flow_list[q]) :
                           \E j \in 1 .. Len(flow_list'[t]) :
                               flow_list'[t][j] = [flow_list[q][i] EXCEPT !.queue_id = t]
                 /\ flow_list'[q] = << >>
                 /\ LinkedEntries' = LinkedEntries
                 /\ RecordIndex(failed_queue_list', q, 1) > 0]_vars

(***************************************************************************)
(* C2  Migration is atomic with respect to lookups: a lookup of a recorded *)
(* flow key that runs while flows are being migrated meets the flow in     *)
(* one of the tables; it never completes having seen it in neither.        *)
(* (Stated as the claim has it; the code does not keep it.)                *)
(***************************************************************************)
LookupNeverMissesFlow ==
    pc["r"] = "done" => found["r"]

(***************************************************************************)
(* C3  Deadlock freedom of migration: two migrations in opposite           *)
(* directions never wait for each other, each holding the flow-table lock  *)
(* the other one needs.  (Stated as the claim has it; the code does not    *)
(* keep it.)                                                               *)
(***************************************************************************)
WaitsFor(a, b) ==
    /\ pc[a] = "lock_new"
    /\ flow_lock[arg_new[a]] = b

OppositeMigrationsNeverDeadlock ==
    \A a \in Migrators, b \in Migrators :
        ( /\ a # b
          /\ arg_old[a] = arg_new[b]
          /\ arg_new[a] = arg_old[b]
          /\ arg_old[a] # arg_new[a] )
            => ~(WaitsFor(a, b) /\ WaitsFor(b, a))

(***************************************************************************)
(* Pool bookkeeping seen from the callers.                                 *)
(***************************************************************************)
\* the slots some caller holds a buffer of
HeldSlots == {i \in Slots : held[i] > 0}

\* the slots a later acquire can take
FreeSlots == {i \in Slots : buffers[i].size = 0}

(***************************************************************************)
(* C4  Buffer exclusivity: a pool slot handed out by an acquire and not    *)
(* yet released is never handed out by another acquire, whatever the       *)
(* requested sizes.  (Stated as the claim has it; the code does not keep   *)
(* it.)                                                                    *)
(***************************************************************************)
BufferExclusive ==
    \A i \in Slots : held[i] <= 1

(***************************************************************************)
(* C5  No buffer leak: while the pool exists, successful acquires minus    *)
(* releases is the number of slots held, and every slot not held is free   *)
(* for reuse; after virtio_nic_dma_cleanup_pools the used count is zero    *)
(* and every page is back with the node.  (Stated as the claim has it;     *)
(* the code does not keep it.)                                             *)
(***************************************************************************)
NoBufferLeak ==
    /\ pool_state = "ready" =>
          /\ acquired - released = Cardinality(HeldSlots)
          /\ used = acquired - released
          /\ \A i \in Slots \ HeldSlots : i \in FreeSlots
    /\ pool_state = "freed" =>
          /\ used = 0
          /\ pages_free = NodePages
          /\ FreeSlots = Slots

(***************************************************************************)
(* C6  Acquire rolls back on failure: when an acquire that found a free    *)
(* slot fails because the node has too few pages or the DMA mapping        *)
(* fails, the pool is as before the call: the same slots are free, the     *)
(* used count and the node's free pages are unchanged.  (Stated as the     *)
(* claim has it; the code does not keep it.)                               *)
(***************************************************************************)
AcquireRollsBack ==
    [][\A size \in Sizes, map_ok \in BOOLEAN :
          ( /\ pool_state = "ready"
            /\ FirstFree(buffers, 0) < PoolSlots
            /\ DIV_ROUND_UP(size, PAGE_SIZE) > pages_free \/ ~map_ok
            /\ virtio_nic_dma_get_buffer(size, TRUE, TRUE, map_ok, TRUE)
            /\ ret' = << >> )
              => /\ FreeSlots' = FreeSlots
                 /\ used' = used
                 /\ pages_free' = pages_free]_vars

(***************************************************************************)
(* C7  In-flight bounds: under any interleaving of transmits, device       *)
(* completions and dequeues, pending_packets of every queue is at least 0  *)
(* and at most the ring capacity.                                          *)
(***************************************************************************)
InFlightBounded ==
    \A q \in Queues : 0 <= pending_packets[q] /\ pending_packets[q] <= RingSize

\* C7 witness: a ring is full again after some of its packets were dequeued
InFlightBoundedWitness ==
    \E q \in Queues :
        /\ pending_packets[q] = RingSize
        /\ tx_packets[q] > RingSize

(***************************************************************************)
(* C8  Coalescing bounds: under any sequence of virtio_nic_update_coalesce *)
(* requests and virtio_nic_adaptive_coalescing runs at any load, the       *)
(* coalescing interval is at least min_coalesce_usecs and at most          *)
(* max_coalesce_usecs.                                                     *)
(***************************************************************************)
CoalesceWithinBounds ==
    min_coalesce_usecs <= coalesce_usecs /\ coalesce_usecs <= max_coalesce_usecs

\* C8 witness: a request above the maximum has been applied and the interval
\* is the maximum
CoalesceWithinBoundsWitness ==
    /\ clamped = "high"
    /\ coalesce_usecs = max_coalesce_usecs

(***************************************************************************)
(* C11  The failover target is never the failing queue: whatever the       *)
(* error counters, when queue k is over the failure threshold the queue    *)
(* virtio_nic_find_available_queue chooses for k's flows is not k.         *)
(* (Stated as the claim has it; the code does not keep it.)                *)
(***************************************************************************)
TargetNeverFailingQueue ==
    \A k \in Queues :
        ExceedsThreshold(rx_errors, tx_errors, k)
            => virtio_nic_find_available_queue(rx_errors, tx_errors) # k

(***************************************************************************)
(* C12  Time-based recovery: a recovery sweep removes the failover record  *)
(* of every failed queue whose last failure is more than 5000 ms old,      *)
(* leaves that queue's rx_errors and tx_errors at zero, and moves it from  *)
(* the failed count to the active count.                                   *)
(***************************************************************************)
\* the records of the failed-queue list whose last failure is older than
\* the recovery window
OldRecords ==
    {i \in 1 .. Len(failed_queue_list) :
        now - failed_queue_list[i].last_failure > 5000}

RecoverySweepRecovers ==
    [][virtio_nic_queue_recovery_work
          => /\ \A i \in OldRecords :
                   LET q == failed_queue_list[i].queue_id IN
                   /\ RecordIndex(failed_queue_list', q, 1) = 0
                   /\ rx_errors'[q] = 0
                   /\ tx_errors'[q] = 0
             /\ fo_failed_queues' = fo_failed_queues - Cardinality(OldRecords)
             /\ fo_active_queues' = fo_active_queues + Cardinality(OldRecords)]_vars

\* C12 witness: the last sweep removed the record of a failed queue after
\* the recovery window, and the queue is back in the active count
RecoverySweepRecoversWitness ==
    /\ recovered # {}
    /\ now > RECOVERY_WINDOW_MS
    /\ fo_active_queues = NumQueues
    /\ fo_failed_queues = 0
    /\ \A q \in recovered :
          /\ RecordIndex(failed_queue_list, q, 1) = 0
          /\ rx_errors[q] = 0
          /\ tx_errors[q] = 0

(***************************************************************************)
(* C13  At most one failover record per queue: after any sequence of       *)
(* health-check ticks and recovery sweeps the failed-queue list holds at   *)
(* most one record with a given queue_id.                                  *)
(***************************************************************************)
\* the positions of the failed-queue list that hold a record of queue q
RecordsOf(q) ==
    {i \in 1 .. Len(failed_queue_list) : failed_queue_list[i].queue_id = q}

OneRecordPerQueue ==
    \A q \in Queues : Cardinality(RecordsOf(q)) <= 1

\* C13 witness: a queue has failed again while it had a record (the record
\* counts two failures) after a sweep had removed a record, and there are
\* records of two queues
OneRecordPerQueueWitness ==
    /\ recovered # {}
    /\ \E i \in 1 .. Len(failed_queue_list) :
          failed_queue_list[i].failure_count >= 2
    /\ Len(failed_queue_list) = NumQueues

(***************************************************************************)
(* C14  Locality invariant: after interrupt and queue setup and after any  *)
(* number of scheduler rebalances, the CPU a queue is bound to (cpu_id)    *)
(* is a CPU of the queue's NUMA node (numa_node).  (Stated as the claim    *)
(* has it; the code does not keep it.)                                     *)
(***************************************************************************)
QueueCpuInItsNode ==
    \A q \in Queues : CpuNode(cpu_id[q]) = QueueNode(q)

(***************************************************************************)
(* C15  Effect of a successful enqueue: when a packet with flow key k and  *)
(* length n is enqueued on queue q and the call returns success, q's       *)
(* pending_packets is one higher and q's flow table holds an entry for k   *)
(* whose packets is one higher and whose bytes is n higher than before     *)
(* (packets = 1 and bytes = n when there was no entry).  (Stated as the    *)
(* claim has it; the code does not keep it.)                               *)
(***************************************************************************)
\* the transmit of a packet with this hash gets through virtio_nic_enqueue
\* and returns
EnqueueSucceeds(hash, map_ok) ==
    /\ map_ok
    /\ q_lock[XmitQueue(hash)] = "free"
    /\ RingHasRoom(XmitQueue(hash))
    /\ flow_lock[XmitQueue(hash)] = "free"

EnqueueCountsPacket ==
    [][\A h \in Hashes, len \in Lens, alloc_ok \in BOOLEAN :
          (EnqueueSucceeds(h, TRUE) /\ virtio_nic_start_xmit(h, len, TRUE, alloc_ok))
              => LET q == XmitQueue(h)
                     i == FirstIndex(flow_list[q], FlowKey(h), 1)
                     j == FirstIndex(flow_list'[q], FlowKey(h), 1)
                 IN /\ pending_packets'[q] = pending_packets[q] + 1
                    /\ j > 0
                    /\ IF i > 0
                       THEN /\ flow_list'[q][j].packets = flow_list[q][i].packets + 1
                            /\ flow_list'[q][j].bytes = flow_list[q][i].bytes + len
                       ELSE /\ flow_list'[q][j].packets = 1
                            /\ flow_list'[q][j].bytes = len]_vars

(***************************************************************************)
(* C16  Busy changes nothing: a transmit that finds no free descriptor on  *)
(* its ring fails with NETDEV_TX_BUSY and leaves pending_packets, the flow *)
(* tables, the per-queue tx counters and the aggregate tx counters as      *)
(* they were.                                                              *)
(***************************************************************************)
BusyChangesNothing ==
    [][\A h \in Hashes, len \in Lens, alloc_ok \in BOOLEAN :
          ( /\ vq_avail[XmitQueue(h)] + vq_used[XmitQueue(h)] >= RingSize
            /\ virtio_nic_start_xmit(h, len, TRUE, alloc_ok) )
              => /\ xmit_ok' = xmit_ok
                 /\ pending_packets' = pending_packets
                 /\ flow_list' = flow_list
                 /\ tx_packets' = tx_packets
                 /\ tx_bytes' = tx_bytes
                 /\ total_tx_packets' = total_tx_packets
                 /\ total_tx_bytes' = total_tx_bytes]_vars

\* C16 witness: a transmit has been refused on a full ring, and a ring is
\* full with its packets counted
BusyChangesNothingWitness ==
    /\ ring_busy
    /\ \E q \in Queues :
          /\ vq_avail[q] + vq_used[q] = RingSize
          /\ pending_packets[q] = RingSize
          /\ tx_packets[q] = RingSize

(***************************************************************************)
(* C17  Flow placement by hash: with all queues active and no migration,   *)
(* after any sequence of successful transmits the flow table of queue i    *)
(* holds exactly the flows of the packets whose hash modulo the number of  *)
(* queues is i.  (Stated as the claim has it; the code does not keep it.)  *)
(***************************************************************************)
\* the flow keys recorded in the flow table of queue i
TableKeys(i) == {flow_list[i][j].flow_id : j \in 1 .. Len(flow_list[i])}

\* the flow keys of the transmitted packets whose hash modulo NumQueues is i
SentKeys(i) == {FlowKey(h) : h \in {g \in sent_hashes : g % NumQueues = i}}

FlowsPlacedByHash ==
    \A i \in Queues : TableKeys(i) = SentKeys(i)

(***************************************************************************)
(* C18  Aggregate transmit accounting: after any sequence of transmits,    *)
(* total_tx_packets is the number of transmits that returned NETDEV_TX_OK  *)
(* and is the sum of the queues' tx_packets.                               *)
(***************************************************************************)
AggregateTxAccounting ==
    /\ total_tx_packets = xmit_ok
    /\ total_tx_packets = SumOver(tx_packets, Queues)

\* C18 witness: packets have been transmitted on every queue, one transmit
\* was refused on a full ring, and every accepted packet is counted
AggregateTxAccountingWitness ==
    /\ xmit_ok = MaxXmitRing
    /\ ring_busy
    /\ \A q \in Queues : tx_packets[q] > 0
    /\ total_tx_packets = MaxXmitRing

(***************************************************************************)
(* C19  Statistics in the critical section of the ring operation: no       *)
(* observer on another CPU sees a packet enqueued on a queue that the      *)
(* queue's tx_packets and tx_bytes do not include yet, so the packets in   *)
(* flight on a queue never outnumber the packets it has counted.  (Stated  *)
(* as the claim has it; the code does not keep it.)                        *)
(***************************************************************************)
StatsCoverRingState ==
    \A q \in Queues :
        /\ pending_packets[q] <= tx_packets[q]
        /\ pending_packets[q] <= tx_bytes[q]

(***************************************************************************)
(* C20  Transparent redirection: once the flows of a failed queue have     *)
(* been migrated to a target queue, a later transmit of a packet of a      *)
(* migrated flow updates the flow's entry in the target's table, and no    *)
(* entry for the flow appears in the failed queue's table.  (Stated as     *)
(* the claim has it; the code does not keep it.)                           *)
(***************************************************************************)
\* the flow of the packets with this hash has been migrated from its failed
\* home queue to queue t: the home queue has a failover record and no entry
\* for the flow, t holds one, and no packet places that flow key on t itself
MigratedTo(hash, t) ==
    /\ t # XmitQueue(hash)
    /\ RecordIndex(failed_queue_list, XmitQueue(hash), 1) > 0
    /\ FirstIndex(flow_list[XmitQueue(hash)], FlowKey(hash), 1) = 0
    /\ FirstIndex(flow_list[t], FlowKey(hash), 1) > 0
    /\ \A g \in Hashes : FlowKey(g) = FlowKey(hash) => XmitQueue(g) # t

TransmitFollowsMigration ==
    [][\A h \in Hashes, len \in FailoverLens, alloc_ok \in BOOLEAN, t \in Queues :
          ( /\ MigratedTo(h, t)
            /\ XmitReturn(h, TRUE) = "OK"
            /\ virtio_nic_start_xmit(h, len, TRUE, alloc_ok) )
              => LET i == FirstIndex(flow_list[t], FlowKey(h), 1) IN
                 /\ FirstIndex(flow_list'[XmitQueue(h)], FlowKey(h), 1) = 0
                 /\ Len(flow_list'[t]) = Len(flow_list[t])
                 /\ flow_list'[t][i].packets = flow_list[t][i].packets + 1
                 /\ flow_list'[t][i].bytes = flow_list[t][i].bytes + len]_vars

(***************************************************************************)
(* SpecDown: the device at work (errors, health checks, coalescing timers  *)
(* and coalescing requests) and its removal.  Nothing in the driver calls  *)
(* virtio_nic_update_coalesce, so the requests come while the device is    *)
(* bound; nothing queues virtio_nic_queue_recovery_work or a queue's       *)
(* failover_work, so neither runs here.                                    *)
(***************************************************************************)
NextDown ==
    \/ \E ok_set \in SUBSET NeedRecord :
          /\ health_check_timer
          /\ FailureCountsBounded
          /\ virtio_nic_health_check_timer(ok_set)
    \/ \E q \in Queues, rx \in BOOLEAN, l \in ErrLevels :
          /\ ~ExceedsThreshold(rx_errors, tx_errors, q)
          /\ DeviceError(q, rx, l)
    \/ \E q \in Queues : virtio_nic_coalesce_timer(q)
    \/ \E usecs \in {min_coalesce_usecs, max_coalesce_usecs} :
          /\ remove_pc = "bound"
          /\ virtio_nic_update_coalesce(usecs, TRUE)
    \/ virtio_nic_remove
    \/ cleanup_failover_del_timer
    \/ cleanup_failover_free
    \/ virtio_nic_free_irqs
    \/ teardown_queues_loop
    \/ teardown_queues_free

SpecDown == Init /\ [][NextDown]_vars

NextSetup ==
    \E n \in 1 .. MaxSetupQueues, d \in 1 .. MaxSetupNodes,
       alloc_ok \in BOOLEAN, vqs_ok \in BOOLEAN, traps \in BOOLEAN :
        virtio_nic_setup_queues(n, d, alloc_ok, vqs_ok, traps)

SpecSetup == Init /\ [][NextSetup]_vars

(***************************************************************************)
(* C22  All-or-nothing setup: when the queue count does not divide evenly  *)
(* across the NUMA nodes (a count below the number of nodes included),     *)
(* queue setup returns an error and leaves zero active queues; otherwise   *)
(* a setup that succeeds gives every queue a node index in                 *)
(* [0, number of nodes).  (Stated as the claim has it; the code does not   *)
(* keep it.)                                                               *)
(***************************************************************************)
SetupAllOrNothing ==
    setup_err # "none" =>
        IF setup_queues % setup_nodes # 0
        THEN /\ setup_err \in {"ENOMEM", "EIO"}
             /\ setup_active = 0
        ELSE setup_err = "ok" =>
                /\ setup_active = setup_queues
                /\ Len(setup_numa_node) = setup_queues
                /\ \A k \in 1 .. setup_queues :
                      setup_numa_node[k] \in 0 .. (setup_nodes - 1)

(***************************************************************************)
(* C23  Zero-copy mappings are always undone: the scatterlists mapped for  *)
(* transmitted packets and not yet unmapped never outnumber the transfers  *)
(* in flight, a mapping being undone when its transfer completes and when  *)
(* the enqueue fails.  (Stated as the claim has it; the code does not      *)
(* keep it.)                                                               *)
(***************************************************************************)
MappingsWithinInFlight ==
    dma_mapped <= SumOver(pending_packets, Queues)

(***************************************************************************)
(* C24  Drain before failed: a queue is on the failed-queue list only      *)
(* once it is drained, that is, every failed queue has no packet in        *)
(* flight and no flow left in its flow table.  (Stated as the claim has    *)
(* it; the code does not keep it.)                                         *)
(***************************************************************************)
FailedQueuesAreDrained ==
    \A q \in RecordedQueues(failed_queue_list) :
        /\ pending_packets[q] = 0
        /\ flow_list[q] = << >>

(***************************************************************************)
(* SpecPoll: transmits, the device completing them, interrupts and NAPI    *)
(* polls with budgets up to MaxBudget.                                     *)
(***************************************************************************)
NextPoll ==
    \/ \E h \in Hashes, len \in FailoverLens :
          /\ total_tx_packets < MaxXmitRing
          /\ virtio_nic_start_xmit(h, len, TRUE, TRUE)
    \/ \E q \in Queues : DeviceUse(q)
    \/ \E q \in Queues : virtio_nic_interrupt(q)
    \/ \E q \in Queues, budget \in 0 .. MaxBudget :
          \E lens \in [1 .. vq_used[q] -> PollLens] :
             virtio_nic_poll(q, budget, lens)

SpecPoll == Init /\ [][NextPoll]_vars

(***************************************************************************)
(* C25  virtio_nic_poll(budget) takes at most budget completions off the   *)
(* ring and returns the number it took; it re-enables the callbacks        *)
(* exactly when it stopped on an empty ring with budget left, and leaves   *)
(* them as they were when the budget was used up.  (Stated as the claim    *)
(* has it; the code does not keep it.)                                     *)
(***************************************************************************)
PollWithinBudget ==
    [][\A q \in Queues, budget \in 0 .. MaxBudget :
          \A lens \in [1 .. vq_used[q] -> PollLens] :
             virtio_nic_poll(q, budget, lens)
                => LET drained == vq_used[q] - vq_used'[q] IN
                   /\ drained <= budget
                   /\ poll_ret' = drained
                   /\ IF drained < budget
                      THEN vq_used'[q] = 0 /\ cb_enabled'[q]
                      ELSE cb_enabled'[q] = cb_enabled[q]]_vars

(***************************************************************************)
(* C26  Round-robin queue-to-CPU assignment: queue i is bound to CPU       *)
(* i mod c, c being the number of CPUs, so every binding is a CPU in       *)
(* [0, c) and the numbers of queues bound to any two CPUs differ by at     *)
(* most one.  (Stated as the claim has it; the code does not keep it.)     *)
(***************************************************************************)
\* the queues bound to a CPU
QueuesOn(cpu) == {q \in Queues : cpu_id[q] = cpu}

RoundRobinAssignment ==
    /\ \A q \in Queues : cpu_id[q] = q % NumCpus
    /\ \A q \in Queues : cpu_id[q] \in 0 .. (NumCpus - 1)
    /\ \A c1, c2 \in 0 .. (NumCpus - 1) :
          Cardinality(QueuesOn(c1)) - Cardinality(QueuesOn(c2)) <= 1

(***************************************************************************)
(* C28  Rebalance moves overloaded queues: a rebalance that finds the      *)
(* total of in-flight packets above adaptive_threshold leaves every queue  *)
(* whose own count exceeds adaptive_threshold / num_queues on a CPU other  *)
(* than the one it was on, at every rebalance.  (Stated as the claim has   *)
(* it; the code does not keep it.)                                         *)
(***************************************************************************)
RebalanceMovesOverloaded ==
    stayed = {}

(***************************************************************************)
(* C29  The step of virtio_nic_adaptive_coalescing: with the total of      *)
(* in-flight packets above the high threshold the new interval is          *)
(* max(min_coalesce_usecs, current / 2), with it below the low threshold   *)
(* min(max_coalesce_usecs, current * 2), otherwise the current one; and    *)
(* the run leaves the module's interval and every queue's coalescing       *)
(* timer at that value.  (Stated as the claim has it; the code does not    *)
(* keep it.)                                                               *)
(***************************************************************************)
AdaptiveStepApplied ==
    /\ [][\A dev_found \in BOOLEAN :
             virtio_nic_adaptive_coalescing(dev_found)
                => new_coalesce' =
                      IF TotalLoad > HighLoad
                      THEN Max(min_coalesce_usecs, coalesce_usecs \div 2)
                      ELSE IF TotalLoad < LowLoad
                      THEN Min(max_coalesce_usecs, coalesce_usecs * 2)
                      ELSE coalesce_usecs]_vars
    /\ [](new_coalesce # 0 =>
             /\ coalesce_usecs = new_coalesce
             /\ \A q \in Queues : coalesce_timer[q] = new_coalesce)

(***************************************************************************)
(* SpecCap: Spec with the failures that add nothing to the count of        *)
(* failover attempts left out: every mapping and every flow-entry          *)
(* allocation of a transmit succeeds, and the errors are receive errors.   *)
(***************************************************************************)
NextCap ==
    \/ \E h \in Hashes, len \in FailoverLens :
          /\ total_tx_packets < MaxXmit
          /\ virtio_nic_start_xmit(h, len, TRUE, TRUE)
    \/ \E ok_set \in SUBSET NeedRecord :
          /\ FailureCountsBounded
          /\ virtio_nic_health_check_timer(ok_set)
    \/ \E q \in Queues, l \in ErrLevels :
          /\ ~ExceedsThreshold(rx_errors, tx_errors, q)
          /\ DeviceError(q, TRUE, l)

SpecCap == Init /\ [][NextCap]_vars

(***************************************************************************)
(* C30  Failover attempts are capped: under any sequence of health checks  *)
(* failover_count never exceeds max_failover_count, and a health check     *)
(* that starts with failover_count at max_failover_count moves no flow     *)
(* and counts no attempt.                                                  *)
(***************************************************************************)
FailoverAttemptsCapped ==
    [][/\ failover_count <= max_failover_count => failover_count' <= max_failover_count
       /\ failover_count = max_failover_count
             => \A ok_set \in SUBSET NeedRecord :
                   virtio_nic_health_check_timer(ok_set)
                      => /\ flow_list' = flow_list
                         /\ failover_count' = failover_count]_vars

\* C30 witness: a health check has run with the attempts used up, and left a
\* queue over the error threshold with its flow still in its table
FailoverAttemptsCappedWitness ==
    /\ failover_count = max_failover_count
    /\ quiet >= 1
    /\ \E q \in Queues :
          /\ ExceedsThreshold(rx_errors, tx_errors, q)
          /\ flow_list[q] # << >>

(***************************************************************************)
(* SpecBuf: single calls of virtio_nic_dma_alloc_buffer with every size    *)
(* of BufSizes and every outcome of its allocations.                       *)
(***************************************************************************)
NextBuf ==
    \E size \in BufSizes, pages_ok \in BOOLEAN, sgl_ok \in BOOLEAN,
       map_ok \in BOOLEAN, survives \in BOOLEAN :
        dma_alloc_buffer_call(size, pages_ok, sgl_ok, map_ok, survives)

SpecBuf == Init /\ [][NextBuf]_vars

(***************************************************************************)
(* C27  Page-granular DMA buffers: a buffer built for a size of s bytes    *)
(* has exactly ceil(s / PAGE_SIZE) scatterlist entries, each at offset 0   *)
(* and PAGE_SIZE long.  (Stated as the claim has it; the code does not     *)
(* keep it.)                                                               *)
(***************************************************************************)
\* ceil(s / PAGE_SIZE), in multiples of 2^32 and the rest
CeilPages(size) ==
    [wraps |-> size.wraps, rest |-> size.pages + (IF size.rem > 0 THEN 1 ELSE 0)]

BufferIsPageGranular ==
    built.ret = "ok" =>
        /\ [wraps |-> 0, rest |-> Len(built.sgl)] = CeilPages(built.size)
        /\ \A i \in 1 .. Len(built.sgl) :
              /\ built.sgl[i].offset = 0
              /\ built.sgl[i].length = PAGE_SIZE

(***************************************************************************)
(* SpecSel: error counters at several levels below the failure threshold,  *)
(* transmits that fill the flow tables, and virtio_nic_remap_queue called  *)
(* with new_queue = -1, as virtio_nic_queue_failed calls it, so that the   *)
(* target is the queue virtio_nic_find_available_queue selects.            *)
(***************************************************************************)
SelLevels == {1, 2}

NextSel ==
    \/ \E h \in Hashes, len \in FailoverLens :
          /\ total_tx_packets < MaxXmit
          /\ virtio_nic_start_xmit(h, len, TRUE, TRUE)
    \/ \E q \in Queues, rx \in BOOLEAN, l \in SelLevels : DeviceError(q, rx, l)
    \/ \E o \in Queues : virtio_nic_remap_queue(o, NoQueue)

SpecSel == Init /\ [][NextSel]_vars

(***************************************************************************)
(* C31  Target selection: the queue chosen as failover target has the      *)
(* least rx_errors + tx_errors of all queues when it is chosen, and of     *)
(* the queues that share the least total the one with the lowest index.    *)
(* The choice shows in the entries the remap moves: each bears the         *)
(* target's index in queue_id and is appended to the target's table (or,   *)
(* the target being the queue remapped, is held unlinked by the caller).   *)
(***************************************************************************)
\* rx_errors + tx_errors of queue q
TotalErrors(q) == rx_errors[q] + tx_errors[q]

\* the lowest-numbered of the queues with the least total
LeastErrors ==
    CHOOSE t \in Queues :
        \A q \in Queues : \/ TotalErrors(t) < TotalErrors(q)
                          \/ (TotalErrors(t) = TotalErrors(q) /\ t <= q)

TargetHasFewestErrors ==
    [][\A o \in Queues :
          (/\ pc["m1"] = "idle"
           /\ flow_list[o] # << >>
           /\ virtio_nic_remap_queue(o, NoQueue))
              => LET t == LeastErrors IN
                 IF t = o
                 THEN hand'["m1"] = <<[Head(flow_list[o]) EXCEPT !.queue_id = t]>>
                 ELSE flow_list'[t] = flow_list[t] \o Retagged(flow_list[o], t)]_vars

\* C31 witness: a remap has moved the flow of queue 0 to queue 1, the queue
\* with fewer errors, and cleared queue 0's counters; queue 1 has errors too
TargetHasFewestErrorsWitness ==
    /\ TotalErrors(1) > 0
    /\ TotalErrors(0) = 0
    /\ flow_list[0] = << >>
    /\ \E i \in 1 .. Len(flow_list[1]) :
          /\ flow_list[1][i].queue_id = 1
          /\ HomeQueue(flow_list[1][i]) = 0

(***************************************************************************)
(* C32  Error counters after a migration: when the failover remap of a     *)
(* queue has moved its flows and returned, that queue's rx_errors and      *)
(* tx_errors are zero and the error counters of every other queue are as   *)
(* they were.                                                              *)
(***************************************************************************)
MigrationResetsErrors ==
    [][\A o \in Queues :
          (/\ pc["m1"] = "idle"
           /\ virtio_nic_remap_queue(o, NoQueue)
           /\ pc'["m1"] = "idle")
              => /\ rx_errors'[o] = 0
                 /\ tx_errors'[o] = 0
                 /\ \A q \in Queues \ {o} : /\ rx_errors'[q] = rx_errors[q]
                                            /\ tx_errors'[q] = tx_errors[q]]_vars

\* C32 witness: the flow of queue 0 has been moved to queue 1 by a remap that
\* returned; queue 0's counters are zero and queue 1 has errors of both kinds
MigrationResetsErrorsWitness ==
    /\ pc["m1"] = "idle"
    /\ rx_errors[0] = 0 /\ tx_errors[0] = 0
    /\ rx_errors[1] > 0 /\ tx_errors[1] > 0
    /\ \E i \in 1 .. Len(flow_list[1]) :
          /\ flow_list[1][i].queue_id = 1
          /\ HomeQueue(flow_list[1][i]) = 0

(***************************************************************************)
(* SpecLive: the health-check timer from virtio_nic_init_failover to       *)
(* virtio_nic_remove.  An expiry reads the module parameter                *)
(* failover_enabled, which is writable while the module is loaded (0644):  *)
(* enabled is its value at that expiry.  A pending kernel timer expires,   *)
(* hence the weak fairness of the expiry; nothing obliges the removal or   *)
(* the device's errors to happen.                                          *)
(***************************************************************************)
\* one expiry of failover->health_check_timer: with failover_enabled clear
\* the callback returns at its first test, before mod_timer
health_check_expiry(enabled, ok_set) ==
    /\ health_check_timer
    /\ IF enabled
       THEN virtio_nic_health_check_timer(ok_set)
       ELSE /\ pc["timer"] = "idle"
            /\ health_check_timer' = FALSE
            /\ UNCHANGED <<failover_state, priv_queues, remove_pc, torn>>
            /\ UNCHANGED <<queueVars, failVars, timeVars, poolVars, coalVars, schedVars,
                           setupVars, pollVars, bufVars, threadVars, histVars>>

\* the expiries the model's bounds allow
HealthCheckExpires ==
    \E enabled \in BOOLEAN, ok_set \in SUBSET NeedRecord :
        /\ FailureCountsBounded
        /\ health_check_expiry(enabled, ok_set)

NextLive ==
    \/ HealthCheckExpires
    \/ \E q \in Queues, rx \in BOOLEAN, l \in ErrLevels :
          /\ ~ExceedsThreshold(rx_errors, tx_errors, q)
          /\ DeviceError(q, rx, l)
    \/ virtio_nic_remove
    \/ cleanup_failover_del_timer
    \/ cleanup_failover_free
    \/ virtio_nic_free_irqs
    \/ teardown_queues_loop
    \/ teardown_queues_free

SpecLive == Init /\ [][NextLive]_vars /\ WF_vars(HealthCheckExpires)

(***************************************************************************)
(* C33  The health check reschedules itself: from initialization until     *)
(* the removal begins, the health-check timer is pending again after       *)
(* every expiry, whatever failover_enabled is at the expiry, so that       *)
(* every tick is followed by another.  (Stated as the claim has it; the    *)
(* code does not keep it.)                                                 *)
(***************************************************************************)
HealthCheckReschedules ==
    [](remove_pc = "bound" => <>(health_check_timer \/ remove_pc # "bound"))

(***************************************************************************)
(* C34  Terminal failure: a queue that a health check has declared failed  *)
(* with all max_failover_count attempts used (its record is in the list    *)
(* and, no remap having run for it, its error counters are still above     *)
(* the threshold) keeps its failover record through every later health     *)
(* check and recovery sweep.  (Stated as the claim has it; the code does   *)
(* not keep it.)                                                           *)
(***************************************************************************)
\* the queues the last health check declared failed without an attempt left
TerminallyFailed ==
    {q \in Queues : /\ failover_count = max_failover_count
                    /\ quiet >= 1
                    /\ ExceedsThreshold(rx_errors, tx_errors, q)
                    /\ RecordIndex(failed_queue_list, q, 1) > 0}

TerminalFailureStays ==
    [][\A q \in TerminallyFailed :
          /\ RecordIndex(failed_queue_list', q, 1) > 0
          /\ fo_active_queues' <= fo_active_queues]_vars

(***************************************************************************)
(* C35  Owner field matches table: whenever no migration is in progress    *)
(* (no CPU is inside virtio_nic_remap_queue or virtio_nic_flow_reassign),  *)
(* every entry linked in queue i's flow table has queue_id = i, after any  *)
(* sequence of transmits, whole-queue migrations and single-flow           *)
(* reassignments.                                                          *)
(***************************************************************************)
NoMigrationInProgress ==
    \A t \in {"timer", "m1", "m2", "r"} : pc[t] \in {"idle", "done"}

OwnerMatchesTable ==
    NoMigrationInProgress =>
        \A i \in Queues : \A j \in 1 .. Len(flow_list[i]) :
            flow_list[i][j].queue_id = i

\* C35 witness: with no migration in progress, queue 1's table holds two
\* entries that were created in queue 0's table, moved there by migrations
OwnerMatchesTableWitness ==
    /\ NoMigrationInProgress
    /\ flow_list[0] = << >>
    /\ Len(flow_list[1]) = 2
    /\ flow_list[1][1].flow_id = 1
    /\ flow_list[1][2].flow_id = 0

(***************************************************************************)
(* C36  Keys are unique within one table: after any sequence of transmits  *)
(* and migrations no queue's flow table holds two entries with the same    *)
(* flow key.  (Stated as the claim has it; the code does not keep it.)     *)
(***************************************************************************)
KeysUniqueInTable ==
    \A q \in Queues : \A i \in 1 .. Len(flow_list[q]) : \A j \in 1 .. Len(flow_list[q]) :
        flow_list[q][i].flow_id = flow_list[q][j].flow_id => i = j

(***************************************************************************)
(* C37  Failover bookkeeping: after any sequence of health checks and      *)
(* recovery sweeps, failover->failed_queues is the number of records in    *)
(* failed_queue_list, and failover->active_queues plus                     *)
(* failover->failed_queues is the number of queues.                        *)
(***************************************************************************)
BookkeepingConsistent ==
    /\ fo_failed_queues = Len(failed_queue_list)
    /\ fo_active_queues + fo_failed_queues = NumQueues

\* C37 witness: a sweep has returned one queue to service while the record
\* of another, failed later, stays in the list
BookkeepingConsistentWitness ==
    /\ recovered # {}
    /\ Len(failed_queue_list) = 1
    /\ fo_active_queues = NumQueues - 1

(***************************************************************************)
(* SpecUsed: acquires and releases on the buffer pool by any caller: a     *)
(* release names any slot of the pool, held or free.                       *)
(***************************************************************************)
NextUsed ==
    \/ \E size \in Sizes, pages_ok \in BOOLEAN, sgl_ok \in BOOLEAN,
          map_ok \in BOOLEAN, survives \in BOOLEAN :
          /\ acquired < MaxAcquires
          /\ virtio_nic_dma_get_buffer(size, pages_ok, sgl_ok, map_ok, survives)
    \/ \E i \in Slots, survives \in BOOLEAN :
          /\ released < MaxAcquires
          /\ virtio_nic_dma_put_buffer(i, survives)

SpecUsed == Init /\ [][NextUsed]_vars

(***************************************************************************)
(* C38  The pool's used count is exact: after any sequence of acquires     *)
(* and releases, failed acquires, acquires of size 0 and releases of a     *)
(* free slot included, pool->used is the number of slots handed out and    *)
(* not released, and lies between 0 and the pool size.  (Stated as the     *)
(* claim has it; the code does not keep it.)                               *)
(***************************************************************************)
UsedCountExact ==
    pool_state = "ready" =>
        /\ used = Cardinality(HeldSlots)
        /\ 0 <= used
        /\ used <= PoolSlots

(***************************************************************************)
(* C39  Packet accounting survives failover: after any sequence of         *)
(* transmits, accepted or refused, and flow migrations, the packets        *)
(* counters of the entries linked in all flow tables add up to the number  *)
(* of packets accepted.  (Stated as the claim has it; the code does not    *)
(* keep it.)                                                               *)
(***************************************************************************)
RECURSIVE PacketsIn(_)
\* the sum of the packets counters of the entries of one list
PacketsIn(list) ==
    IF list = << >> THEN 0 ELSE Head(list).packets + PacketsIn(Tail(list))

\* the sum over the flow tables of all queues
FlowPackets == SumOver([q \in Queues |-> PacketsIn(flow_list[q])], Queues)

PacketAccountingSurvives ==
    NoMigrationInProgress => FlowPackets = xmit_ok

(***************************************************************************)
(* C40  Single-flow reassignment: virtio_nic_flow_reassign(flow_id,        *)
(* new_queue) with a valid new_queue, called with no flow_lock held,       *)
(* returns; after it the flow, if some table held it, has an entry in      *)
(* new_queue's table with queue_id = new_queue, also when new_queue        *)
(* already held it; the entries of other flows are as they were, the       *)
(* number of linked entries is unchanged, and nothing changes when no      *)
(* table held the flow.  (Stated as the claim has it; the code does not    *)
(* keep it.)                                                               *)
(***************************************************************************)
\* the entries of list whose key is not flow_id, in list order
OtherFlows(list, flow_id) ==
    LET Other(e) == e.flow_id # flow_id IN SelectSeq(list, Other)

FlowReassignMovesOneFlow ==
    [][\A k \in FlowKeys, n \in Queues :
          (/\ pc["r"] = "idle"
           /\ \A q \in Queues : flow_lock[q] = "free"
           /\ virtio_nic_flow_reassign(k, n))
              => /\ pc'["r"] = "idle"
                 /\ LinkedEntries' = LinkedEntries
                 /\ Owners(k) # {} =>
                       \E j \in 1 .. Len(flow_list'[n]) :
                           /\ flow_list'[n][j].flow_id = k
                           /\ flow_list'[n][j].queue_id = n
                 /\ Owners(k) = {} => flow_list' = flow_list
                 /\ \A q \in Queues :
                       OtherFlows(flow_list'[q], k) = OtherFlows(flow_list[q], k)]_vars

=============================================================================
